---- MODULE Spec2Model ----
(***************************************************************************)
(* Realtime translation session bridge (Volcengine AST variant).           *)
(*                                                                         *)
(* The bridge accepts one browser WebSocket per client, opens an upstream  *)
(* WebSocket to the translation engine on every client `start`, forwards   *)
(* client audio upstream as protobuf TranslateRequest frames and relays    *)
(* decoded TranslateResponse frames back to the browser as JSON messages.  *)
(*                                                                         *)
(* Conventions                                                             *)
(*  - a Buffer is a sequence of bytes (0..255); a JS string is a sequence  *)
(*    of Unicode code points;                                              *)
(*  - JS int32 results are kept as (signed) integers, every intermediate   *)
(*    value stays inside the 32-bit range;                                 *)
(*  - the handlers of the bridge are operators from a session record to a  *)
(*    session record: the record's `out` and `up` fields hold what the     *)
(*    handler sent to the browser and to the engine during that step.      *)
(***************************************************************************)
EXTENDS Integers, Sequences, FiniteSets, TLC

(***************************************************************************)
(* Bounds of the model.                                                    *)
(***************************************************************************)
\* upstream sockets created on one client connection (client `start`s)
MaxConn == 2
\* the same, where the relayed frames are logged
MaxRelayConn == 1
\* upstream frames logged on one client connection
MaxArrived == 2

(***************************************************************************)
(* Event codes of the wire protocol.                                       *)
(***************************************************************************)
EventType ==
    [ None |-> 0, StartSession |-> 100, CancelSession |-> 101,
      FinishSession |-> 102, SessionStarted |-> 150, SessionCanceled |-> 151,
      SessionFinished |-> 152, SessionFailed |-> 153, UsageResponse |-> 154,
      TaskRequest |-> 200, UpdateConfig |-> 201, AudioMuted |-> 250,
      TTSSentenceStart |-> 350, TTSSentenceEnd |-> 351, TTSResponse |-> 352,
      SourceSubtitleStart |-> 650, SourceSubtitleResponse |-> 651,
      SourceSubtitleEnd |-> 652, TranslationSubtitleStart |-> 653,
      TranslationSubtitleResponse |-> 654, TranslationSubtitleEnd |-> 655 ]

(***************************************************************************)
(* 32-bit integer operations of the JS runtime, on signed integers.        *)
(***************************************************************************)
RECURSIVE Pow2(_)
Pow2(n) == IF n = 0 THEN 1 ELSE 2 * Pow2(n - 1)

\* a | b on two's-complement integers (\div is the floor division)
RECURSIVE BitOr(_, _)
BitOr(a, b) ==
    IF a = 0 THEN b
    ELSE IF b = 0 THEN a
    ELSE IF a = -1 \/ b = -1 THEN -1
    ELSE (IF a % 2 = 1 \/ b % 2 = 1 THEN 1 ELSE 0)
         + 2 * BitOr(a \div 2, b \div 2)

\* (v << n) for a 7-bit v: the shift count is taken modulo 32 and the result
\* is truncated to a signed 32-bit integer
ShiftLeft7(v, n) ==
    LET s == n % 32
        m == 32 - s
    IN  IF s <= 24 THEN v * Pow2(s)
        ELSE LET low == v % Pow2(m)
             IN  IF low >= Pow2(m - 1) THEN (low - Pow2(m)) * Pow2(s)
                 ELSE low * Pow2(s)

\* (x >>> 3) of a signed 32-bit x
UShiftRight3(x) == IF x >= 0 THEN x \div 8 ELSE (x \div 8) + 536870912

(***************************************************************************)
(* Text and binary conversions of the runtime.                             *)
(***************************************************************************)
\* String -> UTF-8 bytes (Buffer.from(value, 'utf8')), code points < 0x10000
RECURSIVE Utf8Encode(_)
Utf8Encode(str) ==
    IF str = << >> THEN << >>
    ELSE LET c == Head(str)
             enc == IF c < 128 THEN << c >>
                    ELSE IF c < 2048 THEN << 192 + (c \div 64), 128 + (c % 64) >>
                    ELSE << 224 + (c \div 4096), 128 + ((c \div 64) % 64),
                            128 + (c % 64) >>
         IN  enc \o Utf8Encode(Tail(str))

IsCont(bytes, i, lo, hi) == i <= Len(bytes) /\ bytes[i] >= lo /\ bytes[i] <= hi

\* bytes.toString('utf8'): the WHATWG decoder; every maximal ill-formed
\* subsequence becomes U+FFFD (65533)
RECURSIVE Utf8Decode(_)
Utf8Decode(bytes) ==
    IF bytes = << >> THEN << >>
    ELSE
      LET b == bytes[1]
          rest(k) == SubSeq(bytes, k + 1, Len(bytes))
          lo2 == IF b = 224 THEN 160 ELSE IF b = 240 THEN 144 ELSE 128
          hi2 == IF b = 237 THEN 159 ELSE IF b = 244 THEN 143 ELSE 191
      IN  IF b < 128 THEN << b >> \o Utf8Decode(rest(1))
          ELSE IF b >= 194 /\ b <= 223 THEN
              IF IsCont(bytes, 2, 128, 191)
              THEN << (b - 192) * 64 + (bytes[2] - 128) >> \o Utf8Decode(rest(2))
              ELSE << 65533 >> \o Utf8Decode(rest(1))
          ELSE IF b >= 224 /\ b <= 239 THEN
              IF ~IsCont(bytes, 2, lo2, hi2)
              THEN << 65533 >> \o Utf8Decode(rest(1))
              ELSE IF ~IsCont(bytes, 3, 128, 191)
              THEN << 65533 >> \o Utf8Decode(rest(2))
              ELSE << (b - 224) * 4096 + (bytes[2] - 128) * 64 + (bytes[3] - 128) >>
                   \o Utf8Decode(rest(3))
          ELSE IF b >= 240 /\ b <= 244 THEN
              IF ~IsCont(bytes, 2, lo2, hi2)
              THEN << 65533 >> \o Utf8Decode(rest(1))
              ELSE IF ~IsCont(bytes, 3, 128, 191)
              THEN << 65533 >> \o Utf8Decode(rest(2))
              ELSE IF ~IsCont(bytes, 4, 128, 191)
              THEN << 65533 >> \o Utf8Decode(rest(3))
              ELSE << (b - 240) * 262144 + (bytes[2] - 128) * 4096
                      + (bytes[3] - 128) * 64 + (bytes[4] - 128) >>
                   \o Utf8Decode(rest(4))
          ELSE << 65533 >> \o Utf8Decode(rest(1))

\* buffer.toString('base64'): a string over the base64 alphabet, written as
\* the 6-bit digit values 0..63, with 64 for the padding character '='
RECURSIVE Base64Encode(_)
Base64Encode(bytes) ==
    IF bytes = << >> THEN << >>
    ELSE IF Len(bytes) = 1 THEN
        << bytes[1] \div 4, (bytes[1] % 4) * 16, 64, 64 >>
    ELSE IF Len(bytes) = 2 THEN
        << bytes[1] \div 4, (bytes[1] % 4) * 16 + (bytes[2] \div 16),
           (bytes[2] % 16) * 4, 64 >>
    ELSE << bytes[1] \div 4, (bytes[1] % 4) * 16 + (bytes[2] \div 16),
            (bytes[2] % 16) * 4 + (bytes[3] \div 64), bytes[3] % 64 >>
         \o Base64Encode(SubSeq(bytes, 4, Len(bytes)))

RECURSIVE Base64Digits(_)
Base64Digits(str) ==
    IF str = << >> \/ Head(str) = 64 THEN << >>
    ELSE IF Head(str) > 64 THEN Base64Digits(Tail(str))
    ELSE << Head(str) >> \o Base64Digits(Tail(str))

RECURSIVE Base64Bytes(_)
Base64Bytes(d) ==
    IF Len(d) < 2 THEN << >>
    ELSE IF Len(d) = 2 THEN << d[1] * 4 + (d[2] \div 16) >>
    ELSE IF Len(d) = 3 THEN
        << d[1] * 4 + (d[2] \div 16), (d[2] % 16) * 16 + (d[3] \div 4) >>
    ELSE << d[1] * 4 + (d[2] \div 16), (d[2] % 16) * 16 + (d[3] \div 4),
            (d[3] % 4) * 64 + d[4] >>
         \o Base64Bytes(SubSeq(d, 5, Len(d)))

\* Buffer.from(str, 'base64'): decoding stops at the first padding character
\* and skips characters outside the alphabet (written as values above 64)
Base64Decode(str) == Base64Bytes(Base64Digits(str))

(***************************************************************************)
(* ProtobufWriter: every write returns the bytes it appends to `parts`.    *)
(***************************************************************************)
RECURSIVE writeVarint(_)
writeVarint(value) ==
    IF value > 127
    THEN << (value % 128) + 128 >> \o writeVarint(value \div 128)
    ELSE << value % 256 >>

writeTag(fieldNumber, wireType) == writeVarint(BitOr(fieldNumber * 8, wireType))

writeString(fieldNumber, value) ==
    IF value = << >> THEN << >>
    ELSE LET bytes == Utf8Encode(value)
         IN  writeTag(fieldNumber, 2) \o writeVarint(Len(bytes)) \o bytes

writeBytes(fieldNumber, value) ==
    IF value = << >> THEN << >>
    ELSE writeTag(fieldNumber, 2) \o writeVarint(Len(value)) \o value

writeInt32(fieldNumber, value) ==
    IF value = 0 THEN << >>
    ELSE writeTag(fieldNumber, 0) \o writeVarint(value)

writeMessage(fieldNumber, messageBytes) ==
    IF messageBytes = << >> THEN << >>
    ELSE writeTag(fieldNumber, 2) \o writeVarint(Len(messageBytes)) \o messageBytes

\* buildTranslateRequest(options); options has the members sessionId, event,
\* user, sourceAudio, targetAudio and request; a block the caller left out is
\* << >> and a block it gave is << block >> (a member the caller left out
\* of a block is the falsy value of its type, the empty string or 0)
buildTranslateRequest(options) ==
    LET meta == IF options.sessionId = << >> THEN << >>
                ELSE writeMessage(1, writeString(6, options.sessionId))
        user == IF options.user = << >> THEN << >>
                ELSE writeMessage(3, writeString(1, options.user[1].uid)
                                     \o writeString(2, options.user[1].did)
                                     \o writeString(3, options.user[1].platform)
                                     \o writeString(4, options.user[1].sdkVersion))
        src ==  IF options.sourceAudio = << >> THEN << >>
                ELSE writeMessage(4, writeString(4, options.sourceAudio[1].format)
                                     \o writeInt32(7, options.sourceAudio[1].rate)
                                     \o writeInt32(8, options.sourceAudio[1].bits)
                                     \o writeInt32(9, options.sourceAudio[1].channel)
                                     \o writeBytes(14, options.sourceAudio[1].binaryData))
        tgt ==  IF options.targetAudio = << >> THEN << >>
                ELSE writeMessage(5, writeString(4, options.targetAudio[1].format)
                                     \o writeInt32(7, options.targetAudio[1].rate))
        req ==  IF options.request = << >> THEN << >>
                ELSE writeMessage(6, writeString(1, options.request[1].mode)
                                     \o writeString(2, options.request[1].sourceLanguage)
                                     \o writeString(3, options.request[1].targetLanguage))
    IN  meta \o writeInt32(2, options.event) \o user \o src \o tgt \o req

(***************************************************************************)
(* ProtobufReader: a reader is [buffer, offset], offset counted from 0.    *)
(***************************************************************************)
NewReader(buffer) == [buffer |-> buffer, offset |-> 0]

hasMore(r) == r.offset < Len(r.buffer)

\* buffer[offset]; a read outside the buffer yields undefined, which the
\* bitwise operators of readVarint take as 0
ByteAt(buffer, offset) ==
    IF offset >= 0 /\ offset < Len(buffer) THEN buffer[offset + 1] ELSE 0

RECURSIVE readVarintLoop(_, _, _)
readVarintLoop(r, result, shift) ==
    IF hasMore(r)
    THEN LET byte == ByteAt(r.buffer, r.offset)
             next == [r EXCEPT !.offset = @ + 1]
             acc  == BitOr(result, ShiftLeft7(byte % 128, shift))
         IN  IF byte < 128 THEN [value |-> acc, reader |-> next]
             ELSE readVarintLoop(next, acc, shift + 7)
    ELSE [value |-> result, reader |-> r]

readVarint(r) == readVarintLoop(r, 0, 0)

\* Buffer.prototype.slice(start, end)
BufferSlice(buffer, start, end) ==
    LET n == Len(buffer)
        clamp(i) == IF i < 0 THEN (IF n + i < 0 THEN 0 ELSE n + i)
                    ELSE IF i > n THEN n ELSE i
    IN  SubSeq(buffer, clamp(start) + 1, clamp(end))

readBytes(r, length) ==
    [value  |-> BufferSlice(r.buffer, r.offset, r.offset + length),
     reader |-> [r EXCEPT !.offset = @ + length]]

readString(r, length) ==
    LET b == readBytes(r, length)
    IN  [value |-> Utf8Decode(b.value), reader |-> b.reader]

\* the nested loop over response_meta; an optional member is << >> while
\* undefined and << v >> once set
RECURSIVE parseResponseMeta(_, _)
parseResponseMeta(metaReader, meta) ==
    IF ~hasMore(metaReader) THEN meta
    ELSE
      LET t == readVarint(metaReader)
          metaField == UShiftRight3(t.value)
          metaWire == t.value % 8
      IN  IF metaWire = 0 THEN
              LET v == readVarint(t.reader)
              IN  parseResponseMeta(v.reader,
                     IF metaField = 2 THEN [meta EXCEPT !.Sequence = v.value]
                     ELSE IF metaField = 3 THEN [meta EXCEPT !.StatusCode = << v.value >>]
                     ELSE meta)
          ELSE IF metaWire = 2 THEN
              LET len == readVarint(t.reader)
                  str == readString(len.reader, len.value)
              IN  parseResponseMeta(str.reader,
                     IF metaField = 1 THEN [meta EXCEPT !.SessionID = str.value]
                     ELSE IF metaField = 4 THEN [meta EXCEPT !.Message = str.value]
                     ELSE meta)
          ELSE parseResponseMeta(t.reader, meta)

EmptyResponse ==
    [event |-> 0, text |-> << >>, data |-> << >>,
     responseMeta |-> [SessionID |-> << >>, Sequence |-> 0, Message |-> << >>,
                       StatusCode |-> << >>],
     startTime |-> 0, endTime |-> 0, spkChg |-> FALSE, mutedDurationMs |-> << >>]

RECURSIVE parseLoop(_, _)
parseLoop(reader, result) ==
    IF ~hasMore(reader) THEN result
    ELSE
      LET t == readVarint(reader)
          fieldNumber == UShiftRight3(t.value)
          wireType == t.value % 8
      IN  IF wireType = 0 THEN
              LET v == readVarint(t.reader)
              IN  parseLoop(v.reader,
                     IF fieldNumber = 2 THEN [result EXCEPT !.event = v.value]
                     ELSE IF fieldNumber = 5 THEN [result EXCEPT !.startTime = v.value]
                     ELSE IF fieldNumber = 6 THEN [result EXCEPT !.endTime = v.value]
                     ELSE IF fieldNumber = 7 THEN [result EXCEPT !.spkChg = (v.value # 0)]
                     ELSE IF fieldNumber = 8
                          THEN [result EXCEPT !.mutedDurationMs = << v.value >>]
                     ELSE result)
          ELSE IF wireType = 2 THEN
              LET len == readVarint(t.reader)
                  b == readBytes(len.reader, len.value)
              IN  parseLoop(b.reader,
                     IF fieldNumber = 1
                     THEN [result EXCEPT !.responseMeta =
                              parseResponseMeta(NewReader(b.value), @)]
                     ELSE IF fieldNumber = 3 THEN [result EXCEPT !.data = b.value]
                     ELSE IF fieldNumber = 4
                          THEN [result EXCEPT !.text = Utf8Decode(b.value)]
                     ELSE result)
          ELSE IF wireType = 5 THEN
              parseLoop([t.reader EXCEPT !.offset = @ + 4], result)
          ELSE IF wireType = 1 THEN
              parseLoop([t.reader EXCEPT !.offset = @ + 8], result)
          ELSE parseLoop(t.reader, result)

parseTranslateResponse(buffer) == parseLoop(NewReader(buffer), EmptyResponse)

(***************************************************************************)
(* String literals of the bridge, as code points.                          *)
(***************************************************************************)
StrZh == << 122, 104 >>
StrEn == << 101, 110 >>
StrWebTranslator ==
    << 119, 101, 98, 95, 116, 114, 97, 110, 115, 108, 97, 116, 111, 114 >>
StrWeb == << 119, 101, 98 >>
StrSdkVersion == << 49, 46, 48, 46, 48 >>
StrWav == << 119, 97, 118 >>
StrOggOpus == << 111, 103, 103, 95, 111, 112, 117, 115 >>
StrS2s == << 115, 50, 115 >>
StrSessionFailed ==
    << 83, 101, 115, 115, 105, 111, 110, 32, 102, 97, 105, 108, 101, 100 >>
StrConnectionError ==
    << 67, 111, 110, 110, 101, 99, 116, 105, 111, 110, 32, 101, 114, 114, 111,
       114, 58, 32 >>

(***************************************************************************)
(* One client connection of the bridge: the variables that the handlers    *)
(* registered in wss.on('connection') close over.                          *)
(*   ws      the upstream WebSockets created so far, by their readyState:  *)
(*           CONNECTING, OPEN, CLOSING (close() was called, frames may     *)
(*           still arrive), ERRORED (readyState CLOSING after an error,    *)
(*           nothing arrives any more) and CLOSED                          *)
(*   volcWs  the index in ws of the socket the variable volcWs refers to,  *)
(*           0 for null                                                    *)
(*   browser the readyState of browserWs                                   *)
(*   crashed an exception left a handler uncaught and ended the process    *)
(*   out, up what the current handler sent to the browser / to the engine  *)
(***************************************************************************)
NewSession(id) ==
    [ volcWs |-> 0, ws |-> << >>, sessionId |-> id, isSessionActive |-> FALSE,
      sourceLanguage |-> StrZh, targetLanguage |-> StrEn,
      browser |-> "OPEN", crashed |-> FALSE, out |-> << >>, up |-> << >> ]

\* a handler starts with nothing sent
Begin(s) == [s EXCEPT !.out = << >>, !.up = << >>]

\* browserWs.send(JSON.stringify(msg)): a socket that is no longer open drops
\* the message without raising (ws 7 and later)
browserSend(s, msg) ==
    IF s.browser = "OPEN" THEN [s EXCEPT !.out = Append(@, msg)] ELSE s

\* volcWs.send(buffer) on a socket that is not CONNECTING: sent when OPEN,
\* dropped without raising when CLOSING or CLOSED
volcSend(s, buffer) ==
    IF s.ws[s.volcWs] = "OPEN"
    THEN [s EXCEPT !.up = Append(@, [conn |-> s.volcWs, frame |-> buffer])]
    ELSE s

\* an exception that no handler catches ends the process and with it every
\* socket of the process
Uncaught(s) ==
    [s EXCEPT !.crashed = TRUE, !.browser = "CLOSED",
              !.ws = [i \in DOMAIN s.ws |-> "CLOSED"]]

\* the options block of an audio format / of the request parameters
AudioBlock(format, rate, bits, channel, binaryData) ==
    [format |-> format, rate |-> rate, bits |-> bits, channel |-> channel,
     binaryData |-> binaryData]

StartSessionRequest(s) ==
    buildTranslateRequest(
      [ sessionId |-> s.sessionId, event |-> EventType.StartSession,
        user |-> << [uid |-> StrWebTranslator, did |-> StrWebTranslator,
                     platform |-> StrWeb, sdkVersion |-> StrSdkVersion] >>,
        sourceAudio |-> << AudioBlock(StrWav, 16000, 16, 1, << >>) >>,
        targetAudio |-> << [format |-> StrOggOpus, rate |-> 24000] >>,
        request |-> << [mode |-> StrS2s, sourceLanguage |-> s.sourceLanguage,
                        targetLanguage |-> s.targetLanguage] >> ])

TaskRequest(s, audioBuffer) ==
    buildTranslateRequest(
      [ sessionId |-> s.sessionId, event |-> EventType.TaskRequest,
        user |-> << >>,
        sourceAudio |-> << AudioBlock(<< >>, 0, 0, 0, audioBuffer) >>,
        targetAudio |-> << >>, request |-> << >> ])

FinishSessionRequest(s) ==
    buildTranslateRequest(
      [ sessionId |-> s.sessionId, event |-> EventType.FinishSession,
        user |-> << >>, sourceAudio |-> << >>, targetAudio |-> << >>,
        request |-> << >> ])

(***************************************************************************)
(* browserWs.on('message'): data is the parsed JSON message, with the      *)
(* members type, sourceLanguage, targetLanguage and data (a member the     *)
(* client left out is the empty string).                                   *)
(***************************************************************************)
\* (a faulty variant of onStart: every start draws a new sessionId)
onStartNewId(s, data) ==
    [s EXCEPT !.sourceLanguage =
                  IF data.sourceLanguage # << >> THEN data.sourceLanguage ELSE StrZh,
              !.targetLanguage =
                  IF data.targetLanguage # << >> THEN data.targetLanguage ELSE StrEn,
              !.ws = Append(@, "CONNECTING"),
              !.volcWs = Len(s.ws) + 1,
              !.sessionId = Append(s.sessionId, 48)]

\* the `start` branch: a new upstream socket, which volcWs then refers to
onStart(s, data) ==
    [s EXCEPT !.sourceLanguage =
                  IF data.sourceLanguage # << >> THEN data.sourceLanguage ELSE StrZh,
              !.targetLanguage =
                  IF data.targetLanguage # << >> THEN data.targetLanguage ELSE StrEn,
              !.ws = Append(@, "CONNECTING"),
              !.volcWs = Len(s.ws) + 1]

\* volcWs && volcWs.readyState === WebSocket.OPEN && isSessionActive
CanSend(s) == s.volcWs # 0 /\ s.ws[s.volcWs] = "OPEN" /\ s.isSessionActive

\* (a faulty variant of onAudio: the block is acknowledged to the browser)
onAudioAcknowledged(s, data) ==
    browserSend(volcSend(s, TaskRequest(s, Base64Decode(data.data))),
                [type |-> "status", status |-> "audio"])

onAudio(s, data) == volcSend(s, TaskRequest(s, Base64Decode(data.data)))

onStop(s) == volcSend(s, FinishSessionRequest(s))

\* (a faulty variant of onBrowserMessage: a stop that cannot be sent is
\* reported to the browser)
onBrowserMessageStopReported(s, data) ==
    IF data.type = "start" THEN onStart(s, data)
    ELSE IF data.type = "audio" /\ CanSend(s) THEN onAudio(s, data)
    ELSE IF data.type = "stop" /\ CanSend(s) THEN onStop(s)
    ELSE IF data.type = "stop"
         THEN browserSend(s, [type |-> "error", message |-> << >>])
    ELSE s

onBrowserMessage(s, data) ==
    IF data.type = "start" THEN onStart(s, data)
    ELSE IF data.type = "audio" /\ CanSend(s) THEN onAudio(s, data)
    ELSE IF data.type = "stop" /\ CanSend(s) THEN onStop(s)
    ELSE s

(***************************************************************************)
(* browserWs.on('close')                                                   *)
(***************************************************************************)
\* (a faulty variant of onBrowserClose: close() is called before the
\* finish frame is sent)
onBrowserCloseTeardownFirst(s) ==
    IF s.volcWs # 0 /\ s.ws[s.volcWs] = "OPEN"
    THEN LET closing == [s EXCEPT !.ws[s.volcWs] = "CLOSING"]
         IN  IF s.isSessionActive
             THEN volcSend(closing, FinishSessionRequest(closing)) ELSE closing
    ELSE s

onBrowserClose(s) ==
    IF s.volcWs # 0 /\ s.ws[s.volcWs] = "OPEN"
    THEN LET sent == IF s.isSessionActive
                     THEN volcSend(s, FinishSessionRequest(s)) ELSE s
         IN  [sent EXCEPT !.ws[s.volcWs] = "CLOSING"]
    ELSE s

(***************************************************************************)
(* Handlers of an upstream socket.  They close over the variables of the   *)
(* client connection, volcWs included: volcWs is the socket of the latest  *)
(* `start`, which need not be the socket the event is of.                  *)
(***************************************************************************)
StatusMessage(status) == [type |-> "status", status |-> status]

ErrorMessage(message) == [type |-> "error", message |-> message]

\* (a faulty variant of onVolcOpen: the browser is told `ready` as soon as the
\* transport opens)
onVolcOpenReady(s) ==
    IF s.ws[s.volcWs] = "CONNECTING" THEN Uncaught(s)
    ELSE browserSend(volcSend(s, StartSessionRequest(s)), StatusMessage("ready"))

\* volcWs.on('open'): send() raises on a socket that is still CONNECTING
onVolcOpen(s) ==
    IF s.ws[s.volcWs] = "CONNECTING" THEN Uncaught(s)
    ELSE volcSend(s, StartSessionRequest(s))

\* (a faulty variant of onSessionStarted: a block held back earlier is sent
\* once the session is active)
onSessionStartedFlushing(s) ==
    LET t == browserSend([s EXCEPT !.isSessionActive = TRUE], StatusMessage("ready"))
    IN  IF t.volcWs = 0 THEN t ELSE volcSend(t, TaskRequest(t, << 7 >>))

onSessionStarted(s) ==
    browserSend([s EXCEPT !.isSessionActive = TRUE], StatusMessage("ready"))

\* (a faulty variant of onSessionFailed: the engine's message is replaced by a
\* fixed text)
onSessionFailedGeneric(s, response) ==
    browserSend(s, ErrorMessage(StrSessionFailed))

onSessionFailed(s, response) ==
    browserSend(s, ErrorMessage(IF response.responseMeta.Message # << >>
                                THEN response.responseMeta.Message
                                ELSE StrSessionFailed))

\* (a faulty variant of onSessionFinished: the turn is reported only for a session
\* that was active)
onSessionFinishedIfActive(s) ==
    IF s.isSessionActive
    THEN browserSend([s EXCEPT !.isSessionActive = FALSE], [type |-> "turnComplete"])
    ELSE s

onSessionFinished(s) ==
    browserSend([s EXCEPT !.isSessionActive = FALSE], [type |-> "turnComplete"])

\* (a faulty variant of onSourceSubtitleEnd: the case lacks its break and falls through
\* into the case of the interim events)
onSourceSubtitleEndFallThrough(s, response) ==
    IF response.text # << >>
    THEN browserSend(
           browserSend(s, [type |-> "asr", text |-> response.text, isFinal |-> TRUE,
                           sequence |-> response.responseMeta.Sequence]),
           [type |-> "asr", text |-> response.text,
            isFinal |-> (response.event = EventType.SourceSubtitleEnd),
            sequence |-> response.responseMeta.Sequence])
    ELSE s

onSourceSubtitleEnd(s, response) ==
    IF response.text # << >>
    THEN browserSend(s, [type |-> "asr", text |-> response.text, isFinal |-> TRUE,
                         sequence |-> response.responseMeta.Sequence])
    ELSE s

\* (a faulty variant of onSourceSubtitle: the interim message is built like the final one)
onSourceSubtitleAsFinal(s, response) ==
    IF response.text # << >>
    THEN browserSend(s, [type |-> "asr", text |-> response.text, isFinal |-> TRUE,
                         sequence |-> response.responseMeta.Sequence])
    ELSE s

onSourceSubtitle(s, response) ==
    IF response.text # << >>
    THEN browserSend(s, [type |-> "asr", text |-> response.text,
                         isFinal |-> (response.event = EventType.SourceSubtitleEnd),
                         sequence |-> response.responseMeta.Sequence])
    ELSE s

onTranslationSubtitleEnd(s, response) ==
    IF response.text # << >>
    THEN browserSend(s, [type |-> "translation", text |-> response.text,
                         language |-> s.targetLanguage, isFinal |-> TRUE,
                         sequence |-> response.responseMeta.Sequence])
    ELSE s

onTranslationSubtitle(s, response) ==
    IF response.text # << >>
    THEN browserSend(s, [type |-> "translation", text |-> response.text,
                         language |-> s.targetLanguage, isFinal |-> FALSE,
                         sequence |-> response.responseMeta.Sequence])
    ELSE s

onTTS(s, response) ==
    IF response.data # << >>
    THEN browserSend(s, [type |-> "audio", data |-> Base64Encode(response.data),
                         format |-> "opus", sampleRate |-> 24000])
    ELSE s

\* (a faulty variant of onVolcMessage: an event that no case names is passed
\* on to the browser)
onVolcMessageDefaultRelayed(s, volcMessage) ==
    LET response == parseTranslateResponse(volcMessage)
        event == response.event
    IN  IF event = EventType.SessionStarted THEN onSessionStarted(s)
        ELSE IF event = EventType.SessionFailed THEN onSessionFailed(s, response)
        ELSE IF event = EventType.SessionFinished THEN onSessionFinished(s)
        ELSE IF event = EventType.SourceSubtitleEnd
             THEN onSourceSubtitleEnd(s, response)
        ELSE IF event \in {EventType.SourceSubtitleStart,
                           EventType.SourceSubtitleResponse}
             THEN onSourceSubtitle(s, response)
        ELSE IF event = EventType.TranslationSubtitleEnd
             THEN onTranslationSubtitleEnd(s, response)
        ELSE IF event \in {EventType.TranslationSubtitleStart,
                           EventType.TranslationSubtitleResponse}
             THEN onTranslationSubtitle(s, response)
        ELSE IF event \in {EventType.TTSSentenceStart, EventType.TTSResponse,
                           EventType.TTSSentenceEnd}
             THEN onTTS(s, response)
        ELSE IF event = EventType.UsageResponse THEN s
        ELSE browserSend(s, [type |-> "event", text |-> response.text])

\* volcWs.on('message'): the switch on response.event
onVolcMessage(s, volcMessage) ==
    LET response == parseTranslateResponse(volcMessage)
        event == response.event
    IN  IF event = EventType.SessionStarted THEN onSessionStarted(s)
        ELSE IF event = EventType.SessionFailed THEN onSessionFailed(s, response)
        ELSE IF event = EventType.SessionFinished THEN onSessionFinished(s)
        ELSE IF event = EventType.SourceSubtitleEnd
             THEN onSourceSubtitleEnd(s, response)
        ELSE IF event \in {EventType.SourceSubtitleStart,
                           EventType.SourceSubtitleResponse}
             THEN onSourceSubtitle(s, response)
        ELSE IF event = EventType.TranslationSubtitleEnd
             THEN onTranslationSubtitleEnd(s, response)
        ELSE IF event \in {EventType.TranslationSubtitleStart,
                           EventType.TranslationSubtitleResponse}
             THEN onTranslationSubtitle(s, response)
        ELSE IF event \in {EventType.TTSSentenceStart, EventType.TTSResponse,
                           EventType.TTSSentenceEnd}
             THEN onTTS(s, response)
        ELSE s

\* (a faulty variant of onVolcError: the bridge connects again by itself)
onVolcErrorRetrying(s, message) ==
    LET t == browserSend(s, ErrorMessage(StrConnectionError \o message))
    IN  IF Len(t.ws) < MaxConn
        THEN [t EXCEPT !.ws = Append(@, "CONNECTING"), !.volcWs = Len(t.ws) + 1]
        ELSE t

\* volcWs.on('error')
onVolcError(s, message) ==
    browserSend(s, ErrorMessage(StrConnectionError \o message))

\* (a faulty variant of onVolcClose: the close is reported but the session
\* stays active)
onVolcCloseKeepingActive(s) == browserSend(s, StatusMessage("disconnected"))

\* volcWs.on('close')
onVolcClose(s) ==
    browserSend([s EXCEPT !.isSessionActive = FALSE], StatusMessage("disconnected"))

(***************************************************************************)
(* Inputs of the model.                                                    *)
(***************************************************************************)
\* crypto.randomUUID()
SessionIds == { << 115, 49 >>, << 115, 50 >> }

StrA == << 97 >>
StrNiHao == << 20320, 22909 >>
StrHello == << 72, 101, 108, 108, 111 >>
StrQuota == << 37197, 39069, 32 >>
StrReset == << 69, 67, 79, 78, 78, 82, 69, 83, 69, 84 >>

\* what the engine sends: event code, text, audio bytes, message and sequence
\* number of the response metadata
Ev(event, text, data, message, sequence) ==
    [event |-> event, text |-> text, data |-> data, message |-> message,
     sequence |-> sequence]

UpstreamEvents ==
    { Ev(EventType.SessionStarted, << >>, << >>, << >>, 0),
      Ev(EventType.SessionFinished, << >>, << >>, << >>, 0),
      Ev(EventType.SessionFailed, << >>, << >>, StrQuota, 0),
      Ev(EventType.UsageResponse, << >>, << >>, << >>, 0),
      Ev(EventType.SourceSubtitleStart, StrA, << >>, << >>, 1),
      Ev(EventType.SourceSubtitleResponse, StrA, << >>, << >>, 2),
      Ev(EventType.SourceSubtitleEnd, StrNiHao, << >>, << >>, 3),
      Ev(EventType.SourceSubtitleEnd, << >>, << >>, << >>, 3),
      Ev(EventType.TranslationSubtitleStart, StrA, << >>, << >>, 1),
      Ev(EventType.TranslationSubtitleResponse, StrA, << >>, << >>, 2),
      Ev(EventType.TranslationSubtitleEnd, StrHello, << >>, << >>, 3),
      Ev(EventType.TTSResponse, << >>, << 79, 103, 255 >>, << >>, 0),
      Ev(EventType.TTSSentenceEnd, << >>, << >>, << >>, 0),
      Ev(EventType.AudioMuted, StrA, << 79 >>, StrA, 4) }

\* the TranslateResponse frame of an event, as the engine's protobuf encoder
\* writes it: response_meta = 1 {Sequence = 2, Message = 4}, event = 2,
\* data = 3, text = 4
EncodeResponse(e) ==
    writeMessage(1, writeInt32(2, e.sequence) \o writeString(4, e.message))
    \o writeInt32(2, e.event) \o writeBytes(3, e.data) \o writeString(4, e.text)

\* the events of the specification that logs the relayed frames
RelayEvents ==
    { Ev(EventType.SessionStarted, << >>, << >>, << >>, 0),
      Ev(EventType.SessionFinished, << >>, << >>, << >>, 0),
      Ev(EventType.SourceSubtitleResponse, StrA, << >>, << >>, 2),
      Ev(EventType.SourceSubtitleEnd, StrNiHao, << >>, << >>, 3),
      Ev(EventType.SourceSubtitleEnd, << >>, << >>, << >>, 3),
      Ev(EventType.TranslationSubtitleEnd, StrHello, << >>, << >>, 3),
      Ev(EventType.TTSResponse, << >>, << 79, 103, 255 >>, << >>, 0) }

\* the frames, encoded once
FrameOf == [e \in UpstreamEvents |-> EncodeResponse(e)]

\* the JSON messages of the browser, parsed
ClientData(type, sourceLanguage, targetLanguage, data) ==
    [type |-> type, sourceLanguage |-> sourceLanguage,
     targetLanguage |-> targetLanguage, data |-> data]

StartMessages ==
    { ClientData("start", StrZh, StrEn, << >>),
      ClientData("start", << >>, << >>, << >>),
      ClientData("start", StrEn, StrZh, << >>) }

AudioMessages ==
    { ClientData("audio", << >>, << >>, Base64Encode(<< 1, 0, 255, 127 >>)),
      ClientData("audio", << >>, << >>, Base64Encode(<< 7 >>)) }

StopMessage == ClientData("stop", << >>, << >>, << >>)

OtherMessage == ClientData("ping", << >>, << >>, << >>)

ErrorMessages == { StrReset }

(***************************************************************************)
(* The state machine of one client connection.                             *)
(*   session     the connection's variables and what the last step sent    *)
(*   step        the last step: the handler that ran, the upstream socket  *)
(*               it ran for and its input                                  *)
(*   arrived     the engine's events in the order their frames arrived,    *)
(*               each with whether the browser was still connected         *)
(*   relayed     the messages sent to the browser for arrived frames, in   *)
(*               the order sent, each with the index in arrived of the     *)
(*               frame it was sent for                                     *)
(*   specActive  the Active state of the session as the design defines it: *)
(*               'session started' received, and no client stop, upstream  *)
(*               finished or failed event or upstream close since          *)
(*   codec       the last call of the wire codec and what it returned      *)
(*   player      the audio player of the browser page                      *)
(*   peer        the variables of a second client connection of the same   *)
(*               process (PairSpec)                                        *)
(*   hook        the WebSocket hook of the browser page (HookSpec)         *)
(* Spec leaves the two logs empty; RelaySpec keeps them. The bridge leaves *)
(* codec and player alone: they are the state of CodecSpec and PlayerSpec. *)
(***************************************************************************)
VARIABLES session, step, arrived, relayed, specActive, codec, player, peer,
          hook

vars == << session, step, arrived, relayed, specActive, codec, player, peer, hook >>

\* no call of the codec yet, no player mounted
Idle == [op |-> "none"]

NoInput == << >>

Step(kind, conn, input) == [kind |-> kind, conn |-> conn, input |-> input]

Init ==
    /\ session \in { NewSession(id) : id \in SessionIds }
    /\ step = Step("connection", 0, NoInput)
    /\ arrived = << >>
    /\ relayed = << >>
    /\ specActive = FALSE
    /\ codec = Idle
    /\ player = Idle
    /\ peer = Idle
    /\ hook = Idle

Running == ~session.crashed

ClientConnected == Running /\ session.browser = "OPEN"

ClientStart(data, maxConn) ==
    /\ ClientConnected
    /\ Len(session.ws) < maxConn
    /\ session' = onBrowserMessage(Begin(session), data)
    /\ step' = Step("start", 0, data)
    /\ UNCHANGED << codec, player, peer, hook >>
    /\ UNCHANGED << arrived, relayed, specActive >>

ClientAudio(data) ==
    /\ ClientConnected
    /\ session' = onBrowserMessage(Begin(session), data)
    /\ step' = Step("audio", 0, data)
    /\ UNCHANGED << codec, player, peer, hook >>
    /\ UNCHANGED << arrived, relayed, specActive >>

ClientStop ==
    /\ ClientConnected
    /\ session' = onBrowserMessage(Begin(session), StopMessage)
    /\ step' = Step("stop", 0, StopMessage)
    /\ UNCHANGED << codec, player, peer, hook >>
    /\ specActive' = FALSE
    /\ UNCHANGED << arrived, relayed >>

ClientOther ==
    /\ ClientConnected
    /\ session' = onBrowserMessage(Begin(session), OtherMessage)
    /\ step' = Step("other", 0, OtherMessage)
    /\ UNCHANGED << codec, player, peer, hook >>
    /\ UNCHANGED << arrived, relayed, specActive >>

\* the browser's socket closes
BrowserClose ==
    /\ ClientConnected
    /\ session' = onBrowserClose([Begin(session) EXCEPT !.browser = "CLOSED"])
    /\ step' = Step("browserClose", 0, NoInput)
    /\ UNCHANGED << codec, player, peer, hook >>
    /\ UNCHANGED << arrived, relayed, specActive >>

\* the upstream socket c connects
VolcOpen(c) ==
    /\ Running /\ session.ws[c] = "CONNECTING"
    /\ session' = onVolcOpen([Begin(session) EXCEPT !.ws[c] = "OPEN"])
    /\ step' = Step("open", c, NoInput)
    /\ UNCHANGED << codec, player, peer, hook >>
    /\ UNCHANGED << arrived, relayed, specActive >>

\* a frame of the engine arrives on the upstream socket c, which is open or
\* in the closing handshake that close() began
Arrives(c, e) ==
    /\ Running /\ session.ws[c] \in {"OPEN", "CLOSING"}
    /\ session' = onVolcMessage(Begin(session), FrameOf[e])
    /\ step' = Step("message", c, e)
    /\ UNCHANGED << codec, player, peer, hook >>
    /\ specActive' =
         IF e.event = EventType.SessionStarted THEN TRUE
         ELSE IF e.event \in {EventType.SessionFinished, EventType.SessionFailed}
              THEN FALSE
         ELSE specActive

VolcMessage(c, e) ==
    /\ Arrives(c, e)
    /\ UNCHANGED << arrived, relayed >>

VolcMessageLogged(c, e) ==
    /\ Len(arrived) < MaxArrived
    /\ Arrives(c, e)
    /\ arrived' = Append(arrived, [ev |-> e, open |-> (session.browser = "OPEN")])
    /\ relayed' = relayed \o [i \in 1..Len(session'.out) |->
                                [msg |-> session'.out[i], cause |-> Len(arrived')]]

\* the upstream socket c fails: the socket emits 'error', receives nothing
\* more and goes on to close
VolcError(c, message) ==
    /\ Running /\ session.ws[c] \in {"CONNECTING", "OPEN"}
    /\ session' = onVolcError([Begin(session) EXCEPT !.ws[c] = "ERRORED"], message)
    /\ step' = Step("error", c, message)
    /\ UNCHANGED << codec, player, peer, hook >>
    /\ UNCHANGED << arrived, relayed, specActive >>

\* the upstream socket c is closed: by the engine, after an error, or at the
\* end of the closing handshake that close() began
VolcClose(c) ==
    /\ Running /\ session.ws[c] \in {"OPEN", "CLOSING", "ERRORED"}
    /\ session' = onVolcClose([Begin(session) EXCEPT !.ws[c] = "CLOSED"])
    /\ step' = Step("close", c, NoInput)
    /\ UNCHANGED << codec, player, peer, hook >>
    /\ specActive' = FALSE
    /\ UNCHANGED << arrived, relayed >>

Next ==
    \/ \E data \in StartMessages : ClientStart(data, MaxConn)
    \/ \E data \in AudioMessages : ClientAudio(data)
    \/ ClientStop
    \/ ClientOther
    \/ BrowserClose
    \/ \E c \in DOMAIN session.ws : VolcOpen(c)
    \/ \E c \in DOMAIN session.ws : \E e \in UpstreamEvents : VolcMessage(c, e)
    \/ \E c \in DOMAIN session.ws : \E m \in ErrorMessages : VolcError(c, m)
    \/ \E c \in DOMAIN session.ws : VolcClose(c)

Spec == Init /\ [][Next]_vars

RelayNext ==
    \/ \E data \in StartMessages : ClientStart(data, MaxRelayConn)
    \/ \E data \in AudioMessages : ClientAudio(data)
    \/ ClientStop
    \/ ClientOther
    \/ BrowserClose
    \/ \E c \in DOMAIN session.ws : VolcOpen(c)
    \/ \E c \in DOMAIN session.ws : \E e \in RelayEvents : VolcMessageLogged(c, e)
    \/ \E c \in DOMAIN session.ws : \E m \in ErrorMessages : VolcError(c, m)
    \/ \E c \in DOMAIN session.ws : VolcClose(c)

RelayInit == Init /\ session.sessionId = << 115, 49 >>

RelaySpec == RelayInit /\ [][RelayNext]_vars

\* Fairness of the bridge's own scheduling: a closing handshake that close()
\* or an error began completes (the socket library ends it after a timeout
\* at the latest), and a connection attempt ends, in 'open' or in 'error'.
\* Nothing makes the engine send a frame or close a socket of its own accord.
CloseHandshake ==
    \E c \in DOMAIN session.ws :
        session.ws[c] \in {"CLOSING", "ERRORED"} /\ VolcClose(c)

ConnectResolves ==
    \E c \in DOMAIN session.ws :
        session.ws[c] = "CONNECTING"
        /\ (VolcOpen(c) \/ \E m \in ErrorMessages : VolcError(c, m))

LiveSpec == Spec /\ WF_vars(CloseHandshake) /\ WF_vars(ConnectResolves)

(***************************************************************************)
(* Damaged frames: FrameSpec lets the upstream socket also deliver frames  *)
(* that were cut short.                                                    *)
(***************************************************************************)
\* the frame without its last n bytes
Truncated(frame, n) == SubSeq(frame, 1, Len(frame) - n)

FrameEvents ==
    { Ev(EventType.SessionStarted, << >>, << >>, << >>, 0),
      Ev(EventType.SourceSubtitleEnd, StrNiHao, << >>, << >>, 3),
      Ev(EventType.TTSResponse, << >>, << 79, 103, 255 >>, << >>, 0) }

\* cut in the middle of the text (the length prefix says 6 bytes, 3 are
\* left), in the middle of the audio bytes, and in the middle of the varint
\* of the event code
TruncatedFrames ==
    { Truncated(FrameOf[Ev(EventType.SourceSubtitleEnd, StrNiHao, << >>, << >>, 3)], 3),
      Truncated(FrameOf[Ev(EventType.TTSResponse, << >>, << 79, 103, 255 >>, << >>, 0)], 1),
      Truncated(FrameOf[Ev(EventType.SessionStarted, << >>, << >>, << >>, 0)], 1) }

\* a frame that was cut short arrives on the upstream socket c
VolcTruncated(c, frame) ==
    /\ Running /\ session.ws[c] \in {"OPEN", "CLOSING"}
    /\ session' = onVolcMessage(Begin(session), frame)
    /\ step' = Step("truncated", c, frame)
    /\ UNCHANGED << arrived, relayed, specActive, codec, player, peer, hook >>

FrameNext ==
    \/ \E data \in StartMessages : ClientStart(data, MaxRelayConn)
    \/ BrowserClose
    \/ \E c \in DOMAIN session.ws : VolcOpen(c)
    \/ \E c \in DOMAIN session.ws : \E e \in FrameEvents : VolcMessage(c, e)
    \/ \E c \in DOMAIN session.ws : \E f \in TruncatedFrames : VolcTruncated(c, f)
    \/ \E c \in DOMAIN session.ws : VolcClose(c)

FrameSpec == Init /\ [][FrameNext]_vars

(***************************************************************************)
(* Two client connections of one process: PairSpec runs the handlers of    *)
(* the first connection on session and those of the second on peer. Each   *)
(* call of wss.on('connection') has its own variables; what the two share  *)
(* is the process: an exception that no handler catches ends it, and with  *)
(* it the sockets of both.                                                 *)
(***************************************************************************)
MaxPairConn == 2

PairEvents ==
    { Ev(EventType.SessionStarted, << >>, << >>, << >>, 0),
      Ev(EventType.SessionFailed, << >>, << >>, StrQuota, 0) }

PairInit ==
    /\ session = NewSession(<< 115, 49 >>)
    /\ peer = NewSession(<< 115, 50 >>)
    /\ step = [kind |-> "connection", conn |-> 0, input |-> NoInput, who |-> 0]
    /\ arrived = << >>
    /\ relayed = << >>
    /\ specActive = FALSE
    /\ codec = Idle
    /\ player = Idle
    /\ hook = Idle

\* the variables of the connection `who`
Of(who) == IF who = 1 THEN session ELSE peer

\* the handler of connection `who` ran and left `result`; the other
\* connection is untouched unless the process ended
PairApply(who, result, kind, conn, input) ==
    /\ session' = IF who = 1 THEN result
                  ELSE IF result.crashed THEN Uncaught(session) ELSE session
    /\ peer' = IF who = 2 THEN result
               ELSE IF result.crashed THEN Uncaught(peer) ELSE peer
    /\ step' = [kind |-> kind, conn |-> conn, input |-> input, who |-> who]
    /\ UNCHANGED << arrived, relayed, specActive, codec, player, hook >>

PairConnected(who) == ~Of(who).crashed /\ Of(who).browser = "OPEN"

PairStart(who, data) ==
    /\ PairConnected(who)
    /\ Len(Of(who).ws) < MaxPairConn
    /\ PairApply(who, onBrowserMessage(Begin(Of(who)), data), "start", 0, data)

PairAudio(who, data) ==
    /\ PairConnected(who)
    /\ PairApply(who, onBrowserMessage(Begin(Of(who)), data), "audio", 0, data)

PairBrowserClose(who) ==
    /\ PairConnected(who)
    /\ PairApply(who, onBrowserClose([Begin(Of(who)) EXCEPT !.browser = "CLOSED"]),
                 "browserClose", 0, NoInput)

PairVolcOpen(who, c) ==
    /\ ~Of(who).crashed /\ Of(who).ws[c] = "CONNECTING"
    /\ PairApply(who, onVolcOpen([Begin(Of(who)) EXCEPT !.ws[c] = "OPEN"]),
                 "open", c, NoInput)

PairVolcMessage(who, c, e) ==
    /\ ~Of(who).crashed /\ Of(who).ws[c] \in {"OPEN", "CLOSING"}
    /\ PairApply(who, onVolcMessage(Begin(Of(who)), FrameOf[e]), "message", c, e)

PairVolcError(who, c, message) ==
    /\ ~Of(who).crashed /\ Of(who).ws[c] \in {"CONNECTING", "OPEN"}
    /\ PairApply(who, onVolcError([Begin(Of(who)) EXCEPT !.ws[c] = "ERRORED"], message),
                 "error", c, message)

PairVolcClose(who, c) ==
    /\ ~Of(who).crashed /\ Of(who).ws[c] \in {"OPEN", "CLOSING", "ERRORED"}
    /\ PairApply(who, onVolcClose([Begin(Of(who)) EXCEPT !.ws[c] = "CLOSED"]),
                 "close", c, NoInput)

PairNext ==
    \E who \in {1, 2} :
        \/ PairStart(who, ClientData("start", StrEn, StrZh, << >>))
        \/ PairAudio(who, ClientData("audio", << >>, << >>, Base64Encode(<< 7 >>)))
        \/ PairBrowserClose(who)
        \/ \E c \in DOMAIN Of(who).ws : PairVolcOpen(who, c)
        \/ \E c \in DOMAIN Of(who).ws : \E e \in PairEvents : PairVolcMessage(who, c, e)
        \/ \E c \in DOMAIN Of(who).ws : \E m \in ErrorMessages : PairVolcError(who, c, m)
        \/ \E c \in DOMAIN Of(who).ws : PairVolcClose(who, c)

PairSpec == PairInit /\ [][PairNext]_vars

(***************************************************************************)
(* The WebSocket hook of the browser page (useWebSocket). hook holds       *)
(*   wsRef       the index in sockets of wsRef.current, 0 for null         *)
(*   sockets     the WebSockets created so far, by their readyState        *)
(*   sent        for each socket, the types of the messages sent on it     *)
(*   currentAsrRef, currentTranslationRef  the texts of the turn           *)
(*   subtitles   the transcript                                            *)
(*   turn        the number of the turn in progress: the texts that the    *)
(*               bridge sends during turn n end with n                     *)
(* A socket becomes OPEN and its onopen runs in one step, as in a browser. *)
(***************************************************************************)
MaxHookSockets == 2
MaxHookSent == 2
MaxHookTurns == 2

NewHook ==
    [ wsRef |-> 0, sockets |-> << >>, sent |-> << >>, currentAsrRef |-> << >>,
      currentTranslationRef |-> << >>, subtitles |-> << >>, turn |-> 1,
      op |-> "mount" ]

\* (a faulty variant of handleTurnComplete: the texts of the turn are kept)
handleTurnCompleteKeepingText(p) ==
    IF p.currentAsrRef # << >> \/ p.currentTranslationRef # << >>
    THEN [p EXCEPT !.subtitles =
                      Append(@, [sourceText |-> p.currentAsrRef,
                                 targetText |-> p.currentTranslationRef])]
    ELSE p

\* handleTurnComplete()
handleTurnComplete(p) ==
    LET added == IF p.currentAsrRef # << >> \/ p.currentTranslationRef # << >>
                 THEN Append(p.subtitles,
                             [sourceText |-> p.currentAsrRef,
                              targetText |-> p.currentTranslationRef])
                 ELSE p.subtitles
    IN  [p EXCEPT !.subtitles = added, !.currentAsrRef = << >>,
                  !.currentTranslationRef = << >>]

\* connect()
connect(p) ==
    IF (IF p.wsRef = 0 THEN FALSE ELSE p.sockets[p.wsRef] = "OPEN") THEN p
    ELSE [p EXCEPT !.sockets = Append(@, "CONNECTING"), !.sent = Append(@, << >>),
                   !.wsRef = Len(p.sockets) + 1]

\* ws.onopen of the socket i: ws is the socket that connect() created
onopen(p, i) == [p EXCEPT !.sent[i] = Append(@, "start")]

\* ws.onmessage: status, audio and error messages leave these fields alone
onmessage(p, data) ==
    IF data.type = "asr" THEN [p EXCEPT !.currentAsrRef = data.text]
    ELSE IF data.type = "translation"
         THEN [p EXCEPT !.currentTranslationRef = data.text]
    ELSE IF data.type = "turnComplete" THEN handleTurnComplete(p)
    ELSE p

\* disconnect(): close() leaves a socket that is not yet closed CLOSING
disconnect(p) ==
    IF p.wsRef = 0 THEN p
    ELSE [p EXCEPT !.sockets[p.wsRef] = IF @ = "CLOSED" THEN @ ELSE "CLOSING",
                   !.wsRef = 0]

\* (a faulty variant of sendIfOpen: the readyState is not tested)
sendUnguarded(p, type) ==
    IF p.wsRef = 0 THEN p ELSE [p EXCEPT !.sent[p.wsRef] = Append(@, type)]

\* sendAudio(base64Data) and sendStop()
sendIfOpen(p, type) ==
    IF (IF p.wsRef = 0 THEN FALSE ELSE p.sockets[p.wsRef] = "OPEN")
    THEN [p EXCEPT !.sent[p.wsRef] = Append(@, type)]
    ELSE p

HookInit ==
    /\ session = NewSession(<< >>)
    /\ step = Step("hook", 0, NoInput)
    /\ arrived = << >>
    /\ relayed = << >>
    /\ specActive = FALSE
    /\ codec = Idle
    /\ player = Idle
    /\ peer = Idle
    /\ hook = NewHook

\* a call or an event of the hook ran and left `result`
HookDoes(result, op) ==
    /\ hook' = [result EXCEPT !.op = op]
    /\ UNCHANGED << session, step, arrived, relayed, specActive, codec, player, peer >>

\* the messages of the bridge during the turn in progress
HookMessages ==
    { [type |-> "asr", text |-> << 97, hook.turn >>], [type |-> "asr", text |-> << >>],
      [type |-> "translation", text |-> << 116, hook.turn >>] }

HookNext ==
    \/ /\ Len(hook.sockets) < MaxHookSockets \/ connect(hook) = hook
       /\ HookDoes(connect(hook), "connect")
    \/ HookDoes(disconnect(hook), "disconnect")
    \/ \E type \in {"audio", "stop"} :
          /\ \A i \in DOMAIN hook.sent : Len(hook.sent[i]) < MaxHookSent
          /\ HookDoes(sendIfOpen(hook, type), type)
    \/ \E i \in DOMAIN hook.sockets :
          /\ hook.sockets[i] = "CONNECTING"
          /\ HookDoes(onopen([hook EXCEPT !.sockets[i] = "OPEN"], i), "open")
    \/ \E i \in DOMAIN hook.sockets : \E data \in HookMessages :
          /\ hook.sockets[i] \in {"OPEN", "CLOSING"}
          /\ HookDoes(onmessage(hook, data), data.type)
    \/ \E i \in DOMAIN hook.sockets :
          /\ hook.sockets[i] \in {"OPEN", "CLOSING"}
          /\ hook.turn < MaxHookTurns
          /\ HookDoes([onmessage(hook, [type |-> "turnComplete"]) EXCEPT !.turn = @ + 1],
                      "turnComplete")
    \/ \E i \in DOMAIN hook.sockets :
          /\ hook.sockets[i] # "CLOSED"
          /\ HookDoes([hook EXCEPT !.sockets[i] = "CLOSED"], "close")

HookSpec == HookInit /\ [][HookNext]_vars

(***************************************************************************)
(* The wire codec on its own: CodecSpec applies the writer and the reader  *)
(* to inputs drawn from bounded sets; codec holds the last call.           *)
(***************************************************************************)
\* what a call of parseTranslateResponse comes to: the function has no throw
\* statement and calls nothing that throws on a Buffer, so it returns
Returned(value) == [threw |-> FALSE, value |-> value]

RECURSIVE Concat(_)
Concat(parts) == IF parts = << >> THEN << >> ELSE Head(parts) \o Concat(Tail(parts))

\* the fields of the response_meta block and of the frame of an event, one
\* byte sequence per field, in the order of EncodeResponse
MetaFields(e) == << writeInt32(2, e.sequence), writeString(4, e.message) >>

ResponseFields(e) ==
    << writeMessage(1, Concat(MetaFields(e))), writeInt32(2, e.event),
       writeBytes(3, e.data), writeString(4, e.text) >>

\* parts with the field `extra` put in after the first k of them
InsertAt(parts, k, extra) ==
    SubSeq(parts, 1, k) \o << extra >> \o SubSeq(parts, k + 1, Len(parts))

\* k fields are followed by more: a place between two fields that are there
Between(parts, k) ==
    /\ k \in 1..(Len(parts) - 1)
    /\ \E i \in 1..k : parts[i] # << >>
    /\ \E j \in (k + 1)..Len(parts) : parts[j] # << >>

\* the offsets of a frame at which a field ends (0 included)
RECURSIVE FieldEnds(_)
FieldEnds(parts) ==
    IF parts = << >> THEN {0}
    ELSE {0} \cup { Len(Head(parts)) + k : k \in FieldEnds(Tail(parts)) }

CodecEvents ==
    { Ev(EventType.SessionStarted, << >>, << >>, << >>, 0),
      Ev(EventType.SessionFailed, << >>, << >>, StrQuota, 5),
      Ev(EventType.SourceSubtitleEnd, StrNiHao, << >>, << >>, 3),
      Ev(EventType.TranslationSubtitleEnd, StrHello, << >>, StrA, 300),
      Ev(EventType.TTSResponse, << >>, << 79, 103, 255 >>, << >>, 7) }

\* the three requests of the bridge, as options of buildTranslateRequest
RequestOptions ==
    UNION { { [ sessionId |-> id, event |-> EventType.StartSession,
                user |-> << [uid |-> StrWebTranslator, did |-> StrWebTranslator,
                             platform |-> StrWeb, sdkVersion |-> StrSdkVersion] >>,
                sourceAudio |-> << AudioBlock(StrWav, 16000, 16, 1, << >>) >>,
                targetAudio |-> << [format |-> StrOggOpus, rate |-> 24000] >>,
                request |-> << [mode |-> StrS2s, sourceLanguage |-> StrZh,
                                targetLanguage |-> StrEn] >> ],
              [ sessionId |-> id, event |-> EventType.TaskRequest,
                user |-> << >>,
                sourceAudio |-> << AudioBlock(<< >>, 0, 0, 0, << 1, 0, 255, 127 >>) >>,
                targetAudio |-> << >>, request |-> << >> ],
              [ sessionId |-> id, event |-> EventType.FinishSession,
                user |-> << >>, sourceAudio |-> << >>, targetAudio |-> << >>,
                request |-> << >> ] } : id \in SessionIds \cup { << >> } }

\* writeVarint(value) for a Number that may exceed 2^31 - 1, held as the
\* pair q, r: value is q * 128 + r with r < 128. `value & 0x7f` is r, and `value >>>= 7`
\* converts to an unsigned 32-bit integer first, which leaves q modulo 2^25.
writeVarintNumber(q, r) ==
    IF q > 0 THEN << r + 128 >> \o writeVarint(q % Pow2(25)) ELSE << r >>

\* the Numbers written: 0, 1, 127, 128, 300, 2^14, 2^21, 2^28, 2^31 - 1,
\* 2^31, 2^32 - 1, 2^32 and 2^35 + 5, as << q, r >>
VarintInputs ==
    { << 0, 0 >>, << 0, 1 >>, << 0, 127 >>, << 1, 0 >>, << 2, 44 >>,
      << Pow2(7), 0 >>, << Pow2(14), 0 >>, << Pow2(21), 0 >>,
      << Pow2(24) - 1, 127 >>, << Pow2(24), 0 >>, << Pow2(25) - 1, 127 >>,
      << Pow2(25), 0 >>, << Pow2(28), 5 >> }

\* fields no message of the protocol defines: a varint, a length-prefixed
\* value, a 32-bit and a 64-bit fixed value
UnknownFields ==
    { writeTag(9, 0) \o writeVarint(300),
      writeTag(15, 2) \o << 2, 97, 98 >>,
      writeTag(10, 5) \o << 1, 0, 0, 0 >>,
      writeTag(11, 1) \o << 1, 0, 0, 0, 0, 0, 0, 0 >> }

CodecInit ==
    /\ session = NewSession(<< >>)
    /\ step = Step("codec", 0, NoInput)
    /\ arrived = << >>
    /\ relayed = << >>
    /\ specActive = FALSE
    /\ codec = Idle
    /\ player = Idle
    /\ peer = Idle
    /\ hook = Idle

\* parseTranslateResponse on the first n bytes of the frame of e
DecodePrefix(e, n) ==
    /\ n \in 0..Len(Concat(ResponseFields(e)))
    /\ codec' = [ op |-> "decode", fields |-> ResponseFields(e), cut |-> n,
                  outcome |-> Returned(parseTranslateResponse(
                                 SubSeq(Concat(ResponseFields(e)), 1, n))) ]
    /\ UNCHANGED << session, step, arrived, relayed, specActive, player, peer, hook >>

\* parseTranslateResponse(buildTranslateRequest(options))
RoundTrip(options) ==
    /\ codec' = [ op |-> "roundtrip", options |-> options,
                  outcome |-> Returned(parseTranslateResponse(
                                 buildTranslateRequest(options))) ]
    /\ UNCHANGED << session, step, arrived, relayed, specActive, player, peer, hook >>

\* readVarint on the bytes of writeVarint
VarintRoundTrip(q, r) ==
    /\ codec' = [ op |-> "varint", q |-> q, r |-> r,
                  bytes |-> writeVarintNumber(q, r),
                  value |-> readVarint(NewReader(writeVarintNumber(q, r))).value ]
    /\ UNCHANGED << session, step, arrived, relayed, specActive, player, peer, hook >>

\* parseTranslateResponse on the frame of e with an unknown field put in
\* between its fields, after the first k of them ...
DecodeWithUnknown(e, k, extra) ==
    /\ Between(ResponseFields(e), k)
    /\ codec' = [ op |-> "unknown", level |-> "frame", event |-> e, at |-> k,
                  extra |-> extra,
                  outcome |-> Returned(parseTranslateResponse(
                                 Concat(InsertAt(ResponseFields(e), k, extra)))) ]
    /\ UNCHANGED << session, step, arrived, relayed, specActive, player, peer, hook >>

\* ... and between the fields of its response_meta block
DecodeWithUnknownInMeta(e, k, extra) ==
    /\ Between(MetaFields(e), k)
    /\ codec' = [ op |-> "unknown", level |-> "meta", event |-> e, at |-> k,
                  extra |-> extra,
                  outcome |-> Returned(parseTranslateResponse(
                     Concat(<< writeMessage(1, Concat(InsertAt(MetaFields(e), k, extra))) >>
                            \o Tail(ResponseFields(e))))) ]
    /\ UNCHANGED << session, step, arrived, relayed, specActive, player, peer, hook >>

CodecNext ==
    \/ \E e \in CodecEvents : \E n \in 0..Len(Concat(ResponseFields(e))) :
          DecodePrefix(e, n)
    \/ \E options \in RequestOptions : RoundTrip(options)
    \/ \E v \in VarintInputs : VarintRoundTrip(v[1], v[2])
    \/ \E e \in CodecEvents : \E k \in 1..Len(ResponseFields(e)) :
          \E u \in UnknownFields : DecodeWithUnknown(e, k, u)
    \/ \E e \in CodecEvents : \E k \in 1..Len(MetaFields(e)) :
          \E u \in UnknownFields : DecodeWithUnknownInMeta(e, k, u)

CodecSpec == CodecInit /\ [][CodecNext]_vars

(***************************************************************************)
(* The top-level loop of parseTranslateResponse, one iteration at a time.  *)
(* codec holds the reader: the buffer and the read offset. A length is a   *)
(* signed 32-bit integer, as readVarint returns it, and readBytes adds it  *)
(* to the offset as it is.                                                 *)
(***************************************************************************)
\* one pass through the body of `while (reader.hasMore())`: the reader after it
parseIteration(reader) ==
    LET t == readVarint(reader)
        wireType == t.value % 8
    IN  IF wireType = 0 THEN readVarint(t.reader).reader
        ELSE IF wireType = 2
             THEN LET len == readVarint(t.reader)
                  IN  readBytes(len.reader, len.value).reader
        ELSE IF wireType = 5 THEN [t.reader EXCEPT !.offset = @ + 4]
        ELSE IF wireType = 1 THEN [t.reader EXCEPT !.offset = @ + 8]
        ELSE t.reader

\* the buffers decoded: every prefix of the frames of the engine, and a
\* frame whose data field declares the length -6 (the varint fa ff ff ff 0f)
LoopBuffers ==
    UNION { { SubSeq(EncodeResponse(e), 1, n) : n \in 0..Len(EncodeResponse(e)) } :
              e \in CodecEvents }
    \cup { << 26, 250, 255, 255, 255, 15 >>, << 16, 152, 1, 26, 250, 255, 255, 255, 15 >> }

LoopInit ==
    /\ session = NewSession(<< >>)
    /\ step = Step("codec", 0, NoInput)
    /\ arrived = << >>
    /\ relayed = << >>
    /\ specActive = FALSE
    /\ codec \in { [op |-> "parse", reader |-> NewReader(buffer), iterations |-> 0] :
                     buffer \in LoopBuffers }
    /\ player = Idle
    /\ peer = Idle
    /\ hook = Idle

\* one iteration of the loop; iterations counts them up to two, so that an
\* iteration that leaves the reader where it was is still a step
LoopNext ==
    /\ hasMore(codec.reader)
    /\ codec' = [codec EXCEPT !.reader = parseIteration(@),
                              !.iterations = IF @ < 2 THEN @ + 1 ELSE @]
    /\ UNCHANGED << session, step, arrived, relayed, specActive, player, peer, hook >>

LoopSpec == LoopInit /\ [][LoopNext]_vars

(***************************************************************************)
(* The audio player of the browser page (useAudioPlayer). player holds     *)
(*   audioChunks    audioChunksRef.current, the fragments not yet released *)
(*   isMuted        isMutedRef.current                                     *)
(*   playbackQueue  playbackQueueRef.current, the released batches         *)
(*   isProcessing   isProcessingRef.current                                *)
(*   isPlaying      the isPlaying state the hook reports                   *)
(*   device         the combined buffers of the Audio elements that are    *)
(*                  playing; one call of processQueue awaits each of them  *)
(*   next           the number of the next fragment to arrive              *)
(* and three logs: handed, the bytes given to the output device in the     *)
(* order given; muted, the fragments that arrived while mute was engaged;  *)
(* stale, the fragments that were queued when stopPlayback ran. op is the  *)
(* last call. A fragment is one byte, its number.                          *)
(***************************************************************************)
MaxFragments == 4

NewPlayer ==
    [ audioChunks |-> << >>, isMuted |-> FALSE, playbackQueue |-> << >>,
      isProcessing |-> FALSE, isPlaying |-> FALSE, device |-> << >>,
      next |-> 1, handed |-> << >>, muted |-> {}, stale |-> {}, op |-> "mount" ]

\* the set of the elements of a sequence
Range(seq) == { seq[i] : i \in 1..Len(seq) }

\* (a faulty variant of toggleMute: engaging or disengaging mute also drops
\* the released batches and the processing flag)
toggleMuteFlushing(p) ==
    [p EXCEPT !.isMuted = ~p.isMuted, !.playbackQueue = << >>,
              !.isProcessing = FALSE]

\* toggleMute: the updater of setIsMuted also writes the ref
toggleMute(p) == [p EXCEPT !.isMuted = ~p.isMuted]

\* queueAudio(base64Data)
queueAudio(p, base64Data) ==
    [p EXCEPT !.audioChunks = Append(@, Base64Decode(base64Data))]

\* playSingleAudio(chunks), up to audio.play(): the chunks are combined into
\* one buffer, which an Audio element starts to play
playSingleAudio(p, chunks) ==
    [p EXCEPT !.device = Append(@, Concat(chunks)),
              !.handed = @ \o Concat(chunks)]

\* the while loop of processQueue, from its test to the next await or to
\* the end of the function
RECURSIVE processLoop(_)
processLoop(p) ==
    IF Len(p.playbackQueue) > 0
    THEN LET chunks == Head(p.playbackQueue)
             shifted == [p EXCEPT !.playbackQueue = Tail(@)]
         IN  IF Len(chunks) > 0 THEN playSingleAudio(shifted, chunks)
             ELSE processLoop(shifted)
    ELSE [p EXCEPT !.isPlaying = FALSE, !.isProcessing = FALSE]

\* processQueue(), up to its first await
processQueue(p) ==
    IF p.isProcessing THEN p
    ELSE processLoop([p EXCEPT !.isProcessing = TRUE, !.isPlaying = TRUE])

\* (a faulty variant of playQueuedAudio: the released fragments stay in the
\* buffer)
playQueuedAudioKeeping(p) ==
    IF Len(p.audioChunks) = 0 THEN p
    ELSE IF p.isMuted THEN [p EXCEPT !.audioChunks = << >>]
    ELSE processQueue([p EXCEPT !.playbackQueue = Append(@, p.audioChunks)])

\* playQueuedAudio()
playQueuedAudio(p) ==
    IF Len(p.audioChunks) = 0 THEN p
    ELSE IF p.isMuted THEN [p EXCEPT !.audioChunks = << >>]
    ELSE processQueue([p EXCEPT !.playbackQueue = Append(@, p.audioChunks),
                                !.audioChunks = << >>])

\* stopPlayback(): the Audio elements that are playing are not touched
stopPlayback(p) ==
    [p EXCEPT !.audioChunks = << >>, !.playbackQueue = << >>,
              !.isProcessing = FALSE, !.isPlaying = FALSE]

\* the Audio element i ends (onended, onerror or a rejected play()): its
\* promise resolves and the call of processQueue that awaited it goes on
audioEnded(p, i) ==
    processLoop([p EXCEPT !.device = SubSeq(@, 1, i - 1) \o SubSeq(@, i + 1, Len(@))])

PlayerInit ==
    /\ session = NewSession(<< >>)
    /\ step = Step("player", 0, NoInput)
    /\ arrived = << >>
    /\ relayed = << >>
    /\ specActive = FALSE
    /\ codec = Idle
    /\ player = NewPlayer
    /\ peer = Idle
    /\ hook = Idle

PlayerUnchanged ==
    UNCHANGED << session, step, arrived, relayed, specActive, codec, peer, hook >>

ToggleMute ==
    /\ player' = [toggleMute(player) EXCEPT !.op = "toggleMute"]
    /\ PlayerUnchanged

\* an audio message arrives with the next fragment
QueueAudio ==
    /\ player.next <= MaxFragments
    /\ player' = [queueAudio(player, Base64Encode(<< player.next >>)) EXCEPT
                     !.next = @ + 1,
                     !.muted = IF player.isMuted THEN @ \cup {player.next} ELSE @,
                     !.op = "queueAudio"]
    /\ PlayerUnchanged

\* a turn is complete
PlayQueuedAudio ==
    /\ player' = [playQueuedAudio(player) EXCEPT !.op = "playQueuedAudio"]
    /\ PlayerUnchanged

StopPlayback ==
    /\ player' = [stopPlayback(player) EXCEPT
                     !.stale = @ \cup Range(Concat(player.audioChunks))
                                 \cup Range(Concat(Concat(player.playbackQueue))),
                     !.op = "stopPlayback"]
    /\ PlayerUnchanged

AudioEnded(i) ==
    /\ i \in 1..Len(player.device)
    /\ player' = [audioEnded(player, i) EXCEPT !.op = "ended"]
    /\ PlayerUnchanged

PlayerNext ==
    \/ ToggleMute
    \/ QueueAudio
    \/ PlayQueuedAudio
    \/ StopPlayback
    \/ \E i \in 1..MaxFragments : AudioEnded(i)

PlayerSpec == PlayerInit /\ [][PlayerNext]_vars

(***************************************************************************)
(* The timer-based audio player of the page (handleAudioResponse and       *)
(* playCollectedAudio; the hook of the same design calls them playAudio    *)
(* and playCollectedAudio). player holds                                   *)
(*   audioChunks  the fragments collected and not yet played               *)
(*   isPlaying    the flag isPlaying                                       *)
(*   timer        a 300 ms timeout is pending (window.audioPlayTimeout)    *)
(*   device       the combined buffers of the Audio elements that play     *)
(*   next, handed as in the batch player                                   *)
(***************************************************************************)
MaxTimerFragments == 6

NewTimerPlayer ==
    [ audioChunks |-> << >>, isPlaying |-> FALSE, timer |-> FALSE,
      device |-> << >>, next |-> 1, handed |-> << >>, op |-> "load" ]

\* playCollectedAudio(), up to audio.play()
playCollectedAudio(p) ==
    IF Len(p.audioChunks) = 0 \/ p.isPlaying THEN p
    ELSE [p EXCEPT !.isPlaying = TRUE,
                   !.device = Append(@, Concat(p.audioChunks)),
                   !.handed = @ \o Concat(p.audioChunks),
                   !.audioChunks = << >>]

\* handleAudioResponse(data): collect the fragment and restart the timeout
handleAudioResponse(p, data) ==
    [p EXCEPT !.audioChunks = Append(@, Base64Decode(data)), !.timer = TRUE]

\* the callback of the timeout
audioPlayTimeout(p) ==
    LET fired == [p EXCEPT !.timer = FALSE]
    IN  IF Len(p.audioChunks) > 0 /\ ~p.isPlaying
        THEN playCollectedAudio(fired) ELSE fired

\* audio.onended / audio.onerror of the Audio element i
onended(p, i) ==
    [p EXCEPT !.device = SubSeq(@, 1, i - 1) \o SubSeq(@, i + 1, Len(@)),
              !.isPlaying = FALSE]

TimerInit ==
    /\ session = NewSession(<< >>)
    /\ step = Step("player", 0, NoInput)
    /\ arrived = << >>
    /\ relayed = << >>
    /\ specActive = FALSE
    /\ codec = Idle
    /\ player = NewTimerPlayer
    /\ peer = Idle
    /\ hook = Idle

\* an audio message arrives with the next fragment
TimerFragment ==
    /\ player.next <= MaxTimerFragments
    /\ player' = [handleAudioResponse(player, Base64Encode(<< player.next >>))
                     EXCEPT !.next = @ + 1, !.op = "audio"]
    /\ PlayerUnchanged

TimerFires ==
    /\ player.timer
    /\ player' = [audioPlayTimeout(player) EXCEPT !.op = "timeout"]
    /\ PlayerUnchanged

TimerEnded ==
    \E i \in DOMAIN player.device :
        /\ player' = [onended(player, i) EXCEPT !.op = "ended"]
        /\ PlayerUnchanged

TimerNext == TimerFragment \/ TimerFires \/ TimerEnded

\* every timeout fires and every playback ends; nothing makes a further
\* fragment arrive
TimerSpec ==
    TimerInit /\ [][TimerNext]_vars /\ WF_vars(TimerFires) /\ WF_vars(TimerEnded)

(***************************************************************************)
(* The per-fragment audio player of the legacy page (handleAudioResponse   *)
(* and playAudioQueue of app-volcengine.js). player holds                  *)
(*   audioQueue  the fragments waiting, each [n, data]: its arrival number *)
(*               and its bytes                                             *)
(*   isPlaying   the flag isPlaying                                        *)
(*   device      the arrival numbers of the buffer sources that play       *)
(*   started     the arrival numbers of the fragments started, in order    *)
(*   next        the number of the next fragment to arrive                 *)
(* new Int16Array(buffer) raises a RangeError when the byte length of the  *)
(* buffer is odd, and createBuffer raises when the buffer is empty.        *)
(***************************************************************************)
MaxLegacyFragments == 4

\* playAudioQueue()
playAudioQueue(p) ==
    IF Len(p.audioQueue) = 0 THEN [p EXCEPT !.isPlaying = FALSE]
    ELSE LET audioItem == Head(p.audioQueue)
             shifted == [p EXCEPT !.audioQueue = Tail(@)]
         IN  IF Len(audioItem.data) % 2 = 0 /\ Len(audioItem.data) > 0
             THEN [shifted EXCEPT !.isPlaying = TRUE,
                                  !.device = Append(@, audioItem.n),
                                  !.started = Append(@, audioItem.n)]
             ELSE [shifted EXCEPT !.isPlaying = FALSE]

\* handleAudioResponse(data) of the legacy page
handleAudioResponseQueued(p, data) ==
    LET pushed == [p EXCEPT !.audioQueue =
                               Append(@, [n |-> p.next, data |-> Base64Decode(data)])]
    IN  IF ~p.isPlaying THEN playAudioQueue(pushed) ELSE pushed

LegacyInit ==
    /\ session = NewSession(<< >>)
    /\ step = Step("player", 0, NoInput)
    /\ arrived = << >>
    /\ relayed = << >>
    /\ specActive = FALSE
    /\ codec = Idle
    /\ player = [ audioQueue |-> << >>, isPlaying |-> FALSE, device |-> << >>,
                  started |-> << >>, next |-> 1, op |-> "load" ]
    /\ peer = Idle
    /\ hook = Idle

\* source.onended of the buffer source i
LegacyEnded ==
    \E i \in DOMAIN player.device :
        /\ player' = [playAudioQueue(
                         [player EXCEPT !.device = SubSeq(@, 1, i - 1)
                                                   \o SubSeq(@, i + 1, Len(@))])
                      EXCEPT !.op = "ended"]
        /\ PlayerUnchanged

LegacyNext ==
    \/ \E data \in { << player.next >>, << player.next, 0 >> } :
          /\ player.next <= MaxLegacyFragments
          /\ player' = [handleAudioResponseQueued(player, Base64Encode(data))
                           EXCEPT !.next = @ + 1, !.op = "audio"]
          /\ PlayerUnchanged
    \/ LegacyEnded

\* every playback ends; nothing makes a further fragment arrive
LegacySpec == LegacyInit /\ [][LegacyNext]_vars /\ WF_vars(LegacyEnded)

(***************************************************************************)
(* Properties.                                                             *)
(***************************************************************************)
\* the event code of a request frame, as the engine decodes it (field 2)
RequestEvent(frame) == parseTranslateResponse(frame).event

UpstreamOpen == { c \in DOMAIN session.ws : session.ws[c] \in {"CONNECTING", "OPEN"} }

AllUpstreamClosed == \A c \in DOMAIN session.ws : session.ws[c] = "CLOSED"

IsMessageStep == step.kind = "message"

\* the number of messages of a sequence that satisfy Test
CountIn(seq, Test(_)) == Cardinality({ i \in 1..Len(seq) : Test(seq[i]) })

\* C1: a client `audio` message sends an audio-data (TaskRequest) frame
\* upstream only if the session is Active at that moment: 'session started'
\* received and no client stop, upstream finished or failed event or upstream
\* close since; in every other state it sends nothing upstream.
C1_AudioOnlyWhenActive ==
    (step.kind = "audio" /\ session.up # << >>) => specActive

\* C2: at most one upstream connection is open or connecting for one client
\* connection, whatever the client sends, a second `start` included.
C2_AtMostOneUpstream == Cardinality(UpstreamOpen) <= 1

\* C3: once the client connection has closed, every upstream connection of the
\* session is eventually closed, whatever state it was in at that moment.
C3_NoUpstreamLeak == (session.browser = "CLOSED") ~> AllUpstreamClosed

\* C4: after a client `stop` for which the finish-session frame was sent, the
\* upstream transport that carried it is eventually closed, also when the
\* engine never answers with 'session finished'.
FinishSentOn(c) ==
    IF step.kind = "stop" /\ session.up # << >>
    THEN session.up[1].conn = c
         /\ RequestEvent(session.up[1].frame) = EventType.FinishSession
    ELSE FALSE

UpstreamClosed(c) == IF c \in DOMAIN session.ws THEN session.ws[c] = "CLOSED" ELSE FALSE

C4_StopClosesUpstream ==
    \A c \in 1..MaxConn : FinishSentOn(c) ~> UpstreamClosed(c)

\* C5: the session becomes active only in the step that handles an upstream
\* 'session started' event; that step makes it active and sends exactly one
\* {type:'status', status:'ready'} to a browser that is still connected, and
\* no other step (the opening of the transport included) sends a `ready`.
IsReady(m) == m = StatusMessage("ready")

C5_ReadyOnlyOnSessionStarted ==
    [][ LET started == step'.kind = "message"
                       /\ step'.input.event = EventType.SessionStarted
        IN  /\ (session'.isSessionActive /\ ~session.isSessionActive) => started
            /\ started => session'.isSessionActive
            /\ CountIn(session'.out, IsReady) =
                 IF started /\ session'.browser = "OPEN" THEN 1 ELSE 0 ]_vars

C5_Witness ==
    /\ IsMessageStep /\ step.input.event = EventType.SessionStarted
    /\ session.isSessionActive
    /\ session.out = << StatusMessage("ready") >>

\* C6: the asr, translation and audio messages sent to the browser are in the
\* order in which their frames arrived: each carries the content of the frame
\* it was sent for, and a later message is for a later frame (none reordered,
\* none duplicated).
IsContent(m) == m.type \in {"asr", "translation", "audio"}

CarriesContentOf(m, e) ==
    IF m.type = "asr"
    THEN e.event \in {EventType.SourceSubtitleStart, EventType.SourceSubtitleResponse,
                      EventType.SourceSubtitleEnd} /\ m.text = e.text
    ELSE IF m.type = "translation"
    THEN e.event \in {EventType.TranslationSubtitleStart,
                      EventType.TranslationSubtitleResponse,
                      EventType.TranslationSubtitleEnd} /\ m.text = e.text
    ELSE e.event \in {EventType.TTSSentenceStart, EventType.TTSResponse,
                      EventType.TTSSentenceEnd}
         /\ m.format = "opus" /\ Base64Decode(m.data) = e.data

C6_RelayedInArrivalOrder ==
    /\ \A i \in 1..Len(relayed) :
          IsContent(relayed[i].msg) =>
              /\ relayed[i].cause \in 1..Len(arrived)
              /\ CarriesContentOf(relayed[i].msg, arrived[relayed[i].cause].ev)
    /\ \A i, j \in 1..Len(relayed) :
          (i < j /\ IsContent(relayed[i].msg) /\ IsContent(relayed[j].msg))
              => relayed[i].cause < relayed[j].cause

C6_Witness ==
    /\ Len(relayed) = 2
    /\ relayed[1].msg.type = "asr" /\ relayed[1].msg.text = StrNiHao
    /\ relayed[2].msg.type = "audio"

\* C7: for interim segments followed by a final segment of one side within a
\* turn, exactly one message with isFinal = true is sent for that side, and
\* its text is the final event's own text when it has one and the text of the
\* last interim otherwise.
InterimCodes(side) ==
    IF side = "asr"
    THEN {EventType.SourceSubtitleStart, EventType.SourceSubtitleResponse}
    ELSE {EventType.TranslationSubtitleStart, EventType.TranslationSubtitleResponse}

EndCode(side) ==
    IF side = "asr" THEN EventType.SourceSubtitleEnd
    ELSE EventType.TranslationSubtitleEnd

\* the text of the last interim of the side among the first k frames of the
\* turn that is open after them, as << text >>; << >> when there is none
RECURSIVE LastInterim(_, _)
LastInterim(k, side) ==
    IF k = 0 THEN << >>
    ELSE IF arrived[k].ev.event \in InterimCodes(side) THEN << arrived[k].ev.text >>
    ELSE IF arrived[k].ev.event \in {EndCode(side), EventType.SessionFinished}
         THEN << >>
    ELSE LastInterim(k - 1, side)

C7_OneFinalPerSide ==
    \A side \in {"asr", "translation"} : \A k \in 1..Len(arrived) :
        (arrived[k].ev.event = EndCode(side) /\ arrived[k].open
         /\ LastInterim(k - 1, side) # << >>)
        => LET finals == { i \in 1..Len(relayed) :
                             /\ relayed[i].cause = k
                             /\ relayed[i].msg.type = side
                             /\ relayed[i].msg.isFinal }
           IN  /\ Cardinality(finals) = 1
               /\ \A i \in finals :
                     relayed[i].msg.text =
                        IF arrived[k].ev.text # << >> THEN arrived[k].ev.text
                        ELSE LastInterim(k - 1, side)[1]

\* C8: an asr or translation message sent to the browser has isFinal = true
\* exactly when the event code of its frame is the '-end' variant of its side;
\* the start and response variants are sent with isFinal = false.
C8_IsFinalIffEndVariant ==
    IsMessageStep =>
        \A i \in 1..Len(session.out) :
            LET m == session.out[i]
            IN  /\ m.type = "asr" =>
                      (m.isFinal <=> step.input.event = EventType.SourceSubtitleEnd)
                /\ m.type = "translation" =>
                      (m.isFinal <=> step.input.event = EventType.TranslationSubtitleEnd)

C8_Witness ==
    /\ IsMessageStep /\ step.input.event = EventType.SourceSubtitleStart
    /\ Len(session.out) = 1
    /\ session.out[1].type = "asr" /\ session.out[1].isFinal = FALSE

\* C9: a `turnComplete` is sent exactly once for every upstream 'session
\* finished' event that arrives while the browser is connected and never
\* without one, and the messages are sent in the order of their frames, so
\* that it follows the messages of all frames that arrived before it.
IsTurnComplete(r) == r.msg.type = "turnComplete"

C9_OneTurnCompletePerFinished ==
    /\ \A k \in 1..Len(arrived) :
          (arrived[k].ev.event = EventType.SessionFinished /\ arrived[k].open)
          => /\ Cardinality({ i \in 1..Len(relayed) : relayed[i].cause = k }) = 1
             /\ \A i \in 1..Len(relayed) :
                   relayed[i].cause = k => IsTurnComplete(relayed[i])
    /\ \A i \in 1..Len(relayed) :
          IsTurnComplete(relayed[i])
          => arrived[relayed[i].cause].ev.event = EventType.SessionFinished
    /\ \A i, j \in 1..Len(relayed) : i < j => relayed[i].cause <= relayed[j].cause

C9_Witness ==
    /\ Len(arrived) = 2
    /\ arrived[1].ev.event = EventType.TranslationSubtitleEnd
    /\ arrived[2].ev.event = EventType.SessionFinished
    /\ Len(relayed) = 2
    /\ relayed[1].msg = [type |-> "translation", text |-> StrHello,
                         language |-> session.targetLanguage, isFinal |-> TRUE,
                         sequence |-> 3]
    /\ relayed[2].msg = [type |-> "turnComplete"]

\* C10: handling a client `audio` message sends nothing to the browser, and an
\* upstream ASR-final event that carries a text T sends the browser exactly
\* one message, {type:'asr', text:T, isFinal:true}.
C10_AudioIsSilentToClient ==
    /\ step.kind = "audio" => session.out = << >>
    /\ (IsMessageStep /\ step.input.event = EventType.SourceSubtitleEnd
        /\ step.input.text # << >> /\ session.browser = "OPEN")
       => /\ Len(session.out) = 1
          /\ session.out[1].type = "asr"
          /\ session.out[1].text = step.input.text
          /\ session.out[1].isFinal = TRUE

C10_Witness ==
    /\ step.kind = "audio"
    /\ session.isSessionActive
    /\ Len(session.up) = 1
    /\ RequestEvent(session.up[1].frame) = EventType.TaskRequest
    /\ session.out = << >>

\* C11: once an upstream 'session failed' event has been handled and its error
\* sent to the browser, the session is not active (so that no later audio is
\* sent upstream) and the upstream transport it arrived on is closed or closing.
C11_FailedClosesSession ==
    (IsMessageStep /\ step.input.event = EventType.SessionFailed
     /\ session.out # << >>)
    => /\ ~session.isSessionActive
       /\ session.ws[step.conn] \in {"CLOSING", "CLOSED"}

\* C12: an upstream 'session failed' event that carries a message M sends the
\* connected browser exactly one message, {type:'error', message: M}.
C12_FailedMessageVerbatim ==
    (IsMessageStep /\ step.input.event = EventType.SessionFailed
     /\ step.input.message # << >> /\ session.browser = "OPEN")
    => session.out = << ErrorMessage(step.input.message) >>

C12_Witness ==
    /\ IsMessageStep /\ step.input.event = EventType.SessionFailed
    /\ session.out = << [type |-> "error", message |-> StrQuota] >>

\* C13: a frame that arrives cut short affects only itself: the step that
\* handles it sends nothing to the browser and leaves the active flag, the
\* upstream connection and the languages as they were.
C13_TruncatedFrameDropped ==
    [][ step'.kind = "truncated"
        => /\ session'.out = << >>
           /\ session'.isSessionActive = session.isSessionActive
           /\ session'.volcWs = session.volcWs
           /\ session'.ws = session.ws
           /\ session'.sourceLanguage = session.sourceLanguage
           /\ session'.targetLanguage = session.targetLanguage ]_vars

\* C14: decoding a buffer that was cut in the middle of a field (inside a
\* varint, or after a length prefix that exceeds the bytes left) raises; the
\* decoder never returns a result built from a short read.
C14_TruncatedDecodeRaises ==
    (codec.op = "decode" /\ codec.cut \notin FieldEnds(codec.fields))
    => codec.outcome.threw

\* C15: decoding what buildTranslateRequest encoded gives back the event code
\* and the session id (and with them the other fields) of the options.
C15_EncodeDecodeRoundTrip ==
    codec.op = "roundtrip"
    => /\ ~codec.outcome.threw
       /\ codec.outcome.value.event = codec.options.event
       /\ codec.outcome.value.responseMeta.SessionID = codec.options.sessionId

\* C16: readVarint on the bytes of writeVarint returns the integer written,
\* for the integers of [0, 2^32) and for larger ones.
C16_VarintRoundTrip ==
    codec.op = "varint"
    => /\ codec.q < Pow2(24)
       /\ codec.value = codec.q * 128 + codec.r

\* C17: an unknown field of any wire type (varint, length-prefixed, 32-bit,
\* 64-bit) put between the known fields of a frame leaves the decoded event
\* code, text, audio bytes and response metadata as they are without it.
C17_UnknownFieldsSkipped ==
    codec.op = "unknown"
    => LET plain == parseTranslateResponse(EncodeResponse(codec.event))
           value == codec.outcome.value
       IN  /\ ~codec.outcome.threw
           /\ value.event = plain.event
           /\ value.text = plain.text
           /\ value.data = plain.data
           /\ value.responseMeta = plain.responseMeta

\* C18: the batches that playQueuedAudio releases are played strictly one
\* after the other: the output device is given the fragments in the order
\* they arrived, and a batch starts only when the batch before it has
\* finished playing, so that at most one batch is playing.
C18_BatchesPlayInTurn ==
    /\ \A i, j \in 1..Len(player.handed) :
          i < j => player.handed[i] < player.handed[j]
    /\ Len(player.device) <= 1

\* C19: a fragment that arrived while mute was engaged is never given to the
\* output device, neither while muted nor after mute is disengaged.
C19_MutedFragmentsDiscarded ==
    Range(player.handed) \cap player.muted = {}

\* C20: stopPlayback empties the pending fragments and the batch queue and
\* halts playback: when it has returned nothing is queued, the player reports
\* not playing and nothing is playing, and no fragment that was queued before
\* it is given to the output device afterwards.
C20_StopClearsAndHalts ==
    /\ player.op = "stopPlayback"
        => /\ player.audioChunks = << >>
           /\ player.playbackQueue = << >>
           /\ ~player.isPlaying
           /\ player.device = << >>
    /\ Range(player.handed) \cap player.stale = {}

\* C21: engaging or disengaging mute leaves the audio already released alone:
\* the step of toggleMute changes neither the batch playback queue, nor the
\* batch that is playing, nor the processing flag.
C21_MuteLeavesReleasedAudio ==
    [][ player'.op = "toggleMute"
        => /\ player'.playbackQueue = player.playbackQueue
           /\ player'.device = player.device
           /\ player'.isProcessing = player.isProcessing
           /\ player'.handed = player.handed ]_vars

C21_Witness ==
    /\ player.op = "toggleMute" /\ player.isMuted
    /\ player.device # << >> /\ player.playbackQueue # << >>
    /\ player.isProcessing

\* C22: the bridge never reconnects by itself: a new upstream connection is
\* made only by the step that handles a client `start`, and an upstream
\* connection that failed or closed is never opened again.
C22_NoAutomaticReconnect ==
    [][ /\ Len(session'.ws) > Len(session.ws) => step'.kind = "start"
        /\ \A c \in DOMAIN session.ws :
              session.ws[c] \in {"CLOSING", "ERRORED", "CLOSED"}
              => session'.ws[c] \in {"CLOSING", "ERRORED", "CLOSED"} ]_vars

C22_Witness ==
    /\ step.kind = "start"
    /\ Len(session.ws) = 2
    /\ session.ws[1] = "CLOSED" /\ session.ws[2] = "CONNECTING"
    /\ session.volcWs = 2

\* C23: two client connections are independent: a step of one of them (a
\* client message, an upstream event, error or close) leaves the other's
\* variables, sockets and sent messages exactly as they were.
C23_SessionsIndependent ==
    [][ /\ step'.who = 1 => peer' = peer
        /\ step'.who = 2 => session' = session ]_vars

\* C24: when the client disconnects while the session is active and the
\* upstream socket is open, the handler sends exactly the finish-session
\* frame on that socket and leaves the socket closing (the frame went out
\* before close() was called); and once the browser socket is closed no step
\* sends a message to it.
C24_FinishThenTeardownUnsurfaced ==
    [][ /\ (step'.kind = "browserClose" /\ CanSend(session))
            => /\ session'.up = << [conn |-> session.volcWs,
                                    frame |-> FinishSessionRequest(session)] >>
               /\ session'.ws[session.volcWs] = "CLOSING"
        /\ session'.browser # "OPEN" => session'.out = << >> ]_vars

C24_Witness ==
    /\ step.kind = "browserClose"
    /\ session.browser = "CLOSED"
    /\ Len(session.up) = 1
    /\ RequestEvent(session.up[1].frame) = EventType.FinishSession
    /\ session.ws[session.volcWs] = "CLOSING"

\* the socket that volcWs refers to exists and is open
TransportOpen(s) == IF s.volcWs = 0 THEN FALSE ELSE s.ws[s.volcWs] = "OPEN"

\* C25: a client stop or a client disconnect that finds the upstream socket
\* absent, not yet open, or already closing or closed does nothing: no frame
\* goes upstream, nothing is sent to the client, no exception ends the
\* process, and the session's variables and sockets stay as they were.
C25_FinishBestEffort ==
    [][ (step'.kind \in {"stop", "browserClose"} /\ ~TransportOpen(session))
        => /\ session'.up = << >>
           /\ session'.out = << >>
           /\ ~session'.crashed
           /\ session' = [Begin(session) EXCEPT !.browser = session'.browser] ]_vars

C25_Witness ==
    /\ step.kind = "stop"
    /\ session.volcWs # 0
    /\ ~TransportOpen(session)
    /\ session.ws[session.volcWs] = "CLOSED"
    /\ session.up = << >> /\ session.out = << >>

\* C26: a transport error of an upstream socket is reported to the client as
\* an error message and leaves the session failed: after the error step the
\* session cannot forward audio (it has no open socket on which it is
\* active).
C26_TransportErrorFails ==
    [][ step'.kind = "error"
        => /\ session.browser = "OPEN"
                => session'.out = << ErrorMessage(StrConnectionError \o step'.input) >>
           /\ ~CanSend(session') ]_vars

IsAudioFrame(sent) == RequestEvent(sent.frame) = EventType.TaskRequest

RequestSessionId(frame) ==
    LET t   == readVarint(NewReader(frame))
        len == readVarint(t.reader)
        b   == readBytes(len.reader, len.value)
        mt  == readVarint(NewReader(b.value))
        ml  == readVarint(mt.reader)
        str == readString(ml.reader, ml.value)
    IN  IF t.value = 10 /\ mt.value = 50 THEN << str.value >> ELSE << >>

\* C28: every frame that a step sends upstream (start-session, audio-data,
\* finish-session) carries the connection's sessionId, and no step changes
\* that sessionId.
C28_FramesTaggedWithSessionId ==
    [][ /\ \A i \in DOMAIN session'.up :
               RequestSessionId(session'.up[i].frame) = << session'.sessionId >>
        /\ session'.sessionId = session.sessionId ]_vars

C28_Witness ==
    /\ step.kind = "stop"
    /\ Len(session.up) = 1
    /\ RequestEvent(session.up[1].frame) = EventType.FinishSession
    /\ RequestSessionId(session.up[1].frame) = << session.sessionId >>
    /\ Len(session.ws) = 2

\* the handler that just ran was given an upstream frame and sent the client
\* one message of the type `type`
Relays(s, st, type) ==
    IF st.kind = "message" /\ Len(s.out) = 1 THEN s.out[1].type = type ELSE FALSE

\* two upstream frames handled one after the other, each relayed as a message
\* of the type `type`, where the engine did not step back on the socket: the
\* second frame came on another socket or carries a sequence number at least
\* as large as the first
RelaysInTurn(type) ==
    /\ Relays(session, step, type)
    /\ Relays(session', step', type)
    /\ step'.conn = step.conn => step'.input.sequence >= step.input.sequence

\* C29: the sequence numbers of successive asr messages sent to the client
\* do not decrease, and neither do those of successive translation messages:
\* of two messages of one type sent one after the other, the second carries
\* a sequence number at least as large as the first.
C29_SequenceIncreasing ==
    [][ /\ RelaysInTurn("asr") => session'.out[1].sequence >= session.out[1].sequence
        /\ RelaysInTurn("translation")
            => session'.out[1].sequence >= session.out[1].sequence ]_vars

\* the type of client message that belongs to an event code: lifecycle
\* (started, finished, failed), ASR, translation and synthesized audio;
\* "none" for usage reports and for every other code
CategoryOf(event) ==
    IF event = EventType.SessionStarted THEN "status"
    ELSE IF event = EventType.SessionFinished THEN "turnComplete"
    ELSE IF event = EventType.SessionFailed THEN "error"
    ELSE IF event \in {EventType.SourceSubtitleStart, EventType.SourceSubtitleResponse,
                       EventType.SourceSubtitleEnd} THEN "asr"
    ELSE IF event \in {EventType.TranslationSubtitleStart,
                       EventType.TranslationSubtitleResponse,
                       EventType.TranslationSubtitleEnd} THEN "translation"
    ELSE IF event \in {EventType.TTSSentenceStart, EventType.TTSResponse,
                       EventType.TTSSentenceEnd} THEN "audio"
    ELSE "none"

\* C30: the handler of an upstream frame sends the client at most one
\* message, and that message has the type of the event's category; a usage
\* report or an event code that belongs to no category sends nothing and
\* leaves the session as it was.
C30_OneCategoryPerEvent ==
    [][ step'.kind = "message"
        => /\ Len(session'.out) <= 1
           /\ \A i \in DOMAIN session'.out :
                 session'.out[i].type = CategoryOf(step'.input.event)
           /\ CategoryOf(step'.input.event) = "none"
                 => session' = Begin(session) ]_vars

C30_Witness ==
    /\ step.kind = "message"
    /\ step.input.event = EventType.AudioMuted
    /\ step.input.text # << >>
    /\ session.browser = "OPEN"
    /\ session.out = << >>
    /\ session.isSessionActive

\* C31: in every interleaving of queueAudio, playQueuedAudio, stopPlayback and
\* ended callbacks at most one call of processQueue is under way (each one
\* that is under way awaits one playing Audio element) and at most one batch
\* is playing on the output device.
C31_OneLoopOneBatch == Cardinality(DOMAIN player.device) <= 1

\* C32: after a second start, what happens on an earlier upstream socket (a
\* frame such as session started or session finished, or its close) leaves
\* alone the active flag that gates the socket volcWs now refers to.
C32_EarlierSocketLeavesFlag ==
    [][ (step'.kind \in {"message", "close"} /\ step'.conn # session.volcWs)
        => session'.isSessionActive = session.isSessionActive ]_vars

\* the fragments the player holds or has played, oldest first: those given to
\* the output device, those in released batches, those still in the buffer
Fragments(p) ==
    p.handed \o Concat(Concat(p.playbackQueue)) \o Concat(p.audioChunks)

\* C33: fragments are conserved and ordered. No fragment is held or played
\* twice and all are in arrival order; playQueuedAudio with an empty buffer
\* changes nothing, with mute engaged it discards the buffer and releases
\* nothing, and otherwise it moves the whole buffer, in order, into exactly
\* one batch, which is either appended to the playback queue or started on
\* the output device.
C33_FragmentsConservedInOrder ==
    [][ /\ \A i, j \in DOMAIN Fragments(player') :
              i < j => Fragments(player')[i] < Fragments(player')[j]
        /\ player'.op = "playQueuedAudio"
            => IF player.audioChunks = << >>
               THEN player' = [player EXCEPT !.op = "playQueuedAudio"]
               ELSE IF player.isMuted
               THEN /\ player'.audioChunks = << >>
                    /\ player'.playbackQueue = player.playbackQueue
                    /\ player'.handed = player.handed
                    /\ player'.device = player.device
               ELSE /\ player'.audioChunks = << >>
                    /\ \/ /\ player'.playbackQueue =
                                Append(player.playbackQueue, player.audioChunks)
                          /\ player'.handed = player.handed
                          /\ player'.device = player.device
                       \/ /\ player'.playbackQueue = player.playbackQueue
                          /\ player'.handed =
                                player.handed \o Concat(player.audioChunks)
                          /\ player'.device =
                                Append(player.device, Concat(player.audioChunks)) ]_vars

C33_Witness ==
    /\ player.op = "playQueuedAudio"
    /\ Len(player.device) = 1
    /\ Len(player.playbackQueue) = 1
    /\ Len(player.playbackQueue[1]) = 2
    /\ player.audioChunks = << >>

\* C34: in the timer-based player every fragment that has arrived is
\* eventually given to the output device, when every timeout fires, every
\* playback ends and stopPlayback is not called.
C34_EveryFragmentPlayed ==
    \A n \in 1..MaxTimerFragments :
        (player.next > n) ~> (n \in Range(player.handed))

\* C35: the close of an upstream socket leaves the session inactive and sends
\* the client, while it is connected, exactly one status message
\* `disconnected`; no other step sends that message, and an inactive session
\* becomes active only by a session-started event.
C35_CloseDeactivatesAndReports ==
    [][ /\ step'.kind = "close"
            => /\ ~session'.isSessionActive
               /\ session'.out = IF session.browser = "OPEN"
                                 THEN << StatusMessage("disconnected") >>
                                 ELSE << >>
        /\ step'.kind # "close"
            => \A i \in DOMAIN session'.out :
                  session'.out[i] # StatusMessage("disconnected")
        /\ (~session.isSessionActive /\ session'.isSessionActive)
            => IF step'.kind = "message"
               THEN step'.input.event = EventType.SessionStarted
               ELSE FALSE ]_vars

C35_Witness ==
    /\ step.kind = "close"
    /\ session.ws[step.conn] = "CLOSED"
    /\ session.browser = "OPEN"
    /\ session.out = << StatusMessage("disconnected") >>
    /\ ~session.isSessionActive
    /\ \E c \in DOMAIN session.ws : session.ws[c] = "OPEN"

C37_StartFirstSendWhenOpen ==
    [][ /\ \A i \in DOMAIN hook'.sent :
              hook'.sent[i] # << >> => hook'.sent[i][1] = "start"
        /\ hook'.op = "open"
            => \E i \in DOMAIN hook.sockets :
                  /\ hook.sockets[i] = "CONNECTING" /\ hook'.sockets[i] = "OPEN"
                  /\ hook'.sent[i] = << "start" >>
        /\ hook'.op \in {"audio", "stop"}
            => \A i \in DOMAIN hook.sent :
                  hook'.sent[i] # hook.sent[i]
                  => /\ hook.sockets[i] = "OPEN"
                     /\ hook'.sent[i] = Append(hook.sent[i], hook'.op)
        /\ (hook'.op = "connect"
             /\ (IF hook.wsRef = 0 THEN FALSE ELSE hook.sockets[hook.wsRef] = "OPEN"))
            => /\ hook'.sockets = hook.sockets
               /\ hook'.wsRef = hook.wsRef ]_vars

C37_Witness ==
    /\ hook.op = "audio"
    /\ Len(hook.sockets) = 2
    /\ hook.wsRef = 2
    /\ hook.sent[2] = << "start", "audio" >>
    /\ hook.sockets[1] = "OPEN"
    /\ hook.sent[1] = << "start" >>

\* C38: in the per-fragment player of the legacy page every fragment that
\* waits in the queue and can be played (a whole number of 16-bit samples) is
\* eventually started on the output device, when every playback ends.
C38_EveryQueuedFragmentStarted ==
    \A n \in 1..MaxLegacyFragments :
        (\E k \in DOMAIN player.audioQueue :
            /\ player.audioQueue[k].n = n
            /\ Len(player.audioQueue[k].data) % 2 = 0)
        ~> (n \in Range(player.started))

\* C39: every iteration of the top-level loop of parseTranslateResponse moves
\* the read offset forward by at least one byte, whatever the wire type and
\* the declared length, so that the loop ends on every buffer.
C39_EveryIterationAdvances ==
    [][ codec'.reader.offset > codec.reader.offset ]_vars

====
